---- MODULE Spec2Model ----
(***************************************************************************)
(* Natural-language-to-SQL pipeline of chatbot_olimpico_backend            *)
(* (app/chat.py): guard engine, SQL generation, SQL execution with typed   *)
(* errors, fallback controller, answer generation and the orchestrator     *)
(* procesar_consulta_chat.                                                 *)
(*                                                                         *)
(* Text is modelled at the level of words.  A question is a sequence of    *)
(* words (the text split at white space); a regular expression of the      *)
(* source is a sequence of atoms separated by .*, each atom a group of   *)
(* alternatives with or without \b anchors.                              *)
(***************************************************************************)
EXTENDS Integers, Sequences, FiniteSets, TLC

(***************************************************************************)
(* Bounds of the model.                                                    *)
(***************************************************************************)
MaxPreguntaLen == 2
MaxFilas == 6

(***************************************************************************)
(* Words.                                                                  *)
(***************************************************************************)
\* str.lower() on the words that occur with capitals; every other word of
\* the model is already lower case.
Lower(w) ==
    CASE w = "Show" -> "show"
      [] w = "DROP" -> "drop"
      [] w = "TABLE" -> "table"
      [] w = "Brazil" -> "brazil"
      [] w = "Women" -> "women"
      [] OTHER -> w

\* pregunta.lower()
LowerSeq(q) == [i \in 1..Len(q) |-> Lower(q[i])]

\* Proper substrings of the (lower-case) words of the model that occur as an
\* alternative of some un-anchored group of the source's patterns, or in the
\* keyword lists of the error handler: <<word, substring>>.
ContieneTabla ==
    { <<"tables", "table">>, <<"users", "user">>, <<"password", "pass">>,
      <<"women", "men">>, <<"database", "base">>, <<"email", "mail">>,
      <<"columns", "column">>, <<"messages", "message">>,
      <<"pg_tables", "table">>, <<"pg_tables", "tables">>,
      <<"information_schema", "schema">>, <<"baseball", "base">>,
      <<"pg_columns", "column">>, <<"pg_columns", "columns">> }

\* s in w, for a word w
Contiene(w, s) == s = w \/ <<w, s>> \in ContieneTabla

\* The words of the model that end with a proper suffix s which is an
\* alternative of a group anchored on the right only: <<word, suffix>>.
TerminaTabla == { <<"pg_columns", "columns">> }

\* w.endswith(s)
TerminaEn(w, s) == s = w \/ <<w, s>> \in TerminaTabla

(***************************************************************************)
(* Regular expressions of the shape  atom (.* atom)*                       *)
(***************************************************************************)
\* \b(a|b|...)\b : whole words
W(S) == [t |-> "w", alts |-> { <<s>> : s \in S }]
\* \b(a b|c|...)\b : whole words or phrases, each a sequence of words
WP(S) == [t |-> "w", alts |-> S]
\* (a|b|...) : no anchor, matches inside a word
Sub(S) == [t |-> "s", alts |-> S]
\* (a|b|...)\b : anchored on the right only
Suf(S) == [t |-> "e", alts |-> S]

\* lengths (in words) of the matches of atom a that start at word i of q
LensAt(a, q, i) ==
    IF a.t = "w"
    THEN { Len(p) : p \in { p \in a.alts :
                 /\ i + Len(p) - 1 <= Len(q)
                 /\ SubSeq(q, i, i + Len(p) - 1) = p } }
    ELSE IF a.t = "s"
    THEN IF \E s \in a.alts : Contiene(q[i], s) THEN {1} ELSE {}
    ELSE IF \E s \in a.alts : TerminaEn(q[i], s) THEN {1} ELSE {}

RECURSIVE MatchFrom(_, _, _, _)
MatchFrom(pat, k, q, from) ==
    IF k > Len(pat) THEN TRUE
    ELSE \E i \in from..Len(q) :
            \E n \in LensAt(pat[k], q, i) : MatchFrom(pat, k + 1, q, i + n)

\* re.search(pat, q) is not None
Search(pat, q) == MatchFrom(pat, 1, q, 1)

(***************************************************************************)
(* Guard engine: chat.py 59-192                                            *)
(***************************************************************************)
Usuarios4 == {"user", "usuario", "users", "usuarios"}
Tablas4 == {"table", "tabla", "tables", "tablas"}
Columnas8 == {"column", "columna", "columns", "columnas",
              "field", "campo", "fields", "campos"}
Datos4 == {"data", "datos", "info", "información"}

PATRONES_CONSULTAS_SENSIBLES ==
    << \* usuarios y passwords
       << W(Usuarios4 \cup {"registered"}),
          Sub({"password", "contraseña", "pass", "pwd", "email", "mail"}) >>,
       << W({"password", "contraseña", "pass", "pwd"}), Sub(Usuarios4) >>,
       << W({"show", "list", "dame", "mostrar"}), Sub(Usuarios4),
          Sub({"password", "email"}) >>,
       << W({"registered", "registrado", "registrados"}), W(Usuarios4) >>,
       << W({"login", "sesion", "session", "auth"}), W(Datos4) >>,
       \* estructura de base de datos
       << W({"show", "mostrar", "ver", "listar", "dame", "display", "list", "what"}),
          Sub(Tablas4 \cup {"database", "base"}) >>,
       << W({"all", "toda", "todas"}), Sub(Tablas4) >>,
       << W({"what", "que", "cuale", "cuales", "which"}), W(Tablas4),
          W({"database", "base", "db"}) >>,
       << W({"describe", "desc", "structure", "estructura"}),
          W({"table", "tabla", "database", "base"}) >>,
       \* columnas
       << W({"what", "que", "cuale", "cuales", "which"}), Suf(Columnas8) >>,
       << W({"show", "mostrar", "ver", "listar", "dame", "display", "list"}),
          Sub(Columnas8) >>,
       << W({"column", "columna", "columns", "columnas"}),
          Sub({"database", "base", "table", "tabla"}) >>,
       << W({"structure", "estructura", "schema", "esquema"}),
          Sub({"column", "columna", "table", "tabla"}) >>,
       \* metadatos del sistema
       << W({"schema"}) >>,
       << W({"information_schema"}) >>,
       << W({"pg_tables"}) >>,
       << W({"pg_catalog"}) >>,
       \* configuracion del sistema
       << W({"config", "configuracion", "configuration", "settings", "ajustes"}) >>,
       << W({"admin", "administrator", "administrador"}), W(Datos4) >>,
       << W({"system", "sistema"}), W(Datos4) >>,
       \* DDL/DML
       << W({"drop", "delete", "update", "insert", "create", "alter", "truncate"}) >>,
       << W({"grant", "revoke", "permissions", "permisos"}) >>,
       \* conversaciones y mensajes privados
       << W({"conversacione", "conversaciones", "conversation", "conversations",
             "message", "mensaje", "messages", "mensajes", "chat"}),
          WP({ <<"other", "user">>, <<"other", "users">>,
               <<"otros", "usuario">>, <<"otros", "usuarios">>,
               <<"all", "user">>, <<"all", "users">>,
               <<"todos", "los", "usuarios">>,
               <<"private">>, <<"privado">>, <<"privados">> }) >>,
       << W({"show", "mostrar", "ver", "listar"}),
          W({"chat", "conversacione", "conversaciones", "mensaje", "mensajes"}),
          W({"user", "usuario", "private", "privado"}) >>
    >>

TABLAS_PUBLICAS_PERMITIDAS == {"medallas_olimpicas"}

Genero8 == {"mujeres", "hombres", "women", "men",
            "femenino", "masculino", "female", "male"}
Deportes4 == {"deporte", "deportes", "sport", "sports"}

patrones_deportivos_genero ==
    << << W(Deportes4), W(Genero8 \cup {"género", "genero", "gender"}) >>,
       << W(Genero8),
          W(Deportes4 \cup {"medalla", "medallas", "medal", "medals"}) >>,
       << WP({ <<"más", "medallas">>, <<"more", "medals">>,
               <<"mejore">>, <<"mejores">>, <<"better">> }),
          W({"mujeres", "hombres", "women", "men"}) >>,
       << W({"mujeres", "women"}), W({"más", "more", "mejor", "better"}),
          W({"hombres", "men"}) >>,
       << W({"hombres", "men"}), W({"más", "more", "mejor", "better"}),
          W({"mujeres", "women"}) >>,
       << W({"comparar", "compare", "diferencia", "difference"}),
          W({"género", "genero", "gender", "sexo"}) >>,
       << W({"participación", "participation"}),
          W({"género", "genero", "gender", "mujeres", "hombres", "women", "men"}) >>
    >>

\* any(re.search(p, q) for p in pats)
AnySearch(pats, q) == \E k \in 1..Len(pats) : Search(pats[k], q)

es_consulta_deportiva_valida(pregunta) ==
    AnySearch(patrones_deportivos_genero, LowerSeq(pregunta))

MSG_RECHAZO_USUARIOS ==
    "Lo siento, no puedo proporcionar información sobre usuarios registrados, contraseñas o datos de autenticación por motivos de seguridad."
MSG_RECHAZO_ESTRUCTURA ==
    "Solo puedo proporcionar información sobre los datos olímpicos disponibles en la tabla de medallistas. No tengo acceso a información sobre la estructura de la base de datos o sus columnas."
MSG_RECHAZO_SISTEMA ==
    "No tengo acceso a información del sistema, configuración o datos administrativos. Solo puedo ayudarte con consultas sobre datos olímpicos."
MSG_RECHAZO_CONVERSACIONES ==
    "No puedo acceder a conversaciones o mensajes de otros usuarios por motivos de privacidad. Solo puedo ayudarte con datos olímpicos públicos."
MSG_RECHAZO_GENERICO ==
    "Lo siento, no puedo procesar esa consulta. Solo puedo ayudarte con información sobre medallistas olímpicos, países, deportes y estadísticas relacionadas con los Juegos Olímpicos de 1976-2008."

MensajesRechazo ==
    { MSG_RECHAZO_USUARIOS, MSG_RECHAZO_ESTRUCTURA, MSG_RECHAZO_SISTEMA,
      MSG_RECHAZO_CONVERSACIONES, MSG_RECHAZO_GENERICO }

\* the category of the k-th sensitive pattern, after the comments that head
\* the groups of the list (chat.py 60, 67, 72, 77, 83, 88, 92)
CategoriaDePatron(k) ==
    IF k <= 5 THEN "usuarios"
    ELSE IF k <= 17 THEN "estructura"
    ELSE IF k <= 20 THEN "sistema"
    ELSE IF k <= 22 THEN "ddl"
    ELSE "conversaciones"

\* the index of the first sensitive pattern, in list order, that q matches
PrimerPatron(q) ==
    CHOOSE k \in 1..Len(PATRONES_CONSULTAS_SENSIBLES) :
        /\ Search(PATRONES_CONSULTAS_SENSIBLES[k], q)
        /\ \A j \in 1..(k - 1) : ~Search(PATRONES_CONSULTAS_SENSIBLES[j], q)

MensajeDeCategoria(c) ==
    CASE c = "usuarios" -> MSG_RECHAZO_USUARIOS
      [] c = "estructura" -> MSG_RECHAZO_ESTRUCTURA
      [] c = "sistema" -> MSG_RECHAZO_SISTEMA
      [] c = "conversaciones" -> MSG_RECHAZO_CONVERSACIONES
      [] OTHER -> MSG_RECHAZO_GENERICO

\* the message chosen by the category of the first pattern matched
mensaje_rechazo_por_patron(q) ==
    MensajeDeCategoria(CategoriaDePatron(PrimerPatron(q)))

\* the message cascade of detectar_consulta_sensible, chat.py 146-159
mensaje_rechazo_de(q) ==
    IF Search(<< W(Usuarios4),
                 W({"password", "contraseña", "pass", "pwd", "email", "mail"}) >>, q)
    THEN MSG_RECHAZO_USUARIOS
    ELSE IF Search(<< W(Tablas4 \cup Columnas8 \cup
                        {"database", "base", "schema", "structure", "estructura"}) >>, q)
    THEN MSG_RECHAZO_ESTRUCTURA
    ELSE IF Search(<< W({"config", "configuracion", "admin", "administrator",
                         "administrador", "system", "sistema"}) >>, q)
    THEN MSG_RECHAZO_SISTEMA
    ELSE IF Search(<< W({"conversacione", "conversaciones", "conversation",
                         "conversations", "message", "mensaje", "messages",
                         "mensajes", "chat"}) >>, q)
    THEN MSG_RECHAZO_CONVERSACIONES
    ELSE MSG_RECHAZO_GENERICO

\* detectar_consulta_sensible searching the text as typed, not lower-cased
detectar_consulta_sensible_sin_lower(pregunta) ==
    IF es_consulta_deportiva_valida(pregunta)
    THEN [es_sensible |-> FALSE, mensaje |-> ""]
    ELSE IF AnySearch(PATRONES_CONSULTAS_SENSIBLES, pregunta)
    THEN [es_sensible |-> TRUE, mensaje |-> mensaje_rechazo_de(LowerSeq(pregunta))]
    ELSE [es_sensible |-> FALSE, mensaje |-> ""]

\* position of the DDL/DML keyword pattern in the list (chat.py 89)
PATRON_DDL == 21

\* detectar_consulta_sensible with a list that lacks the DDL/DML keyword
\* pattern
detectar_consulta_sensible_sin_ddl(pregunta) ==
    IF es_consulta_deportiva_valida(pregunta)
    THEN [es_sensible |-> FALSE, mensaje |-> ""]
    ELSE IF \E k \in 1..Len(PATRONES_CONSULTAS_SENSIBLES) :
               k # PATRON_DDL
               /\ Search(PATRONES_CONSULTAS_SENSIBLES[k], LowerSeq(pregunta))
    THEN [es_sensible |-> TRUE, mensaje |-> mensaje_rechazo_de(LowerSeq(pregunta))]
    ELSE [es_sensible |-> FALSE, mensaje |-> ""]

\* returns (es_sensible, mensaje_rechazo)
detectar_consulta_sensible(pregunta) ==
    IF es_consulta_deportiva_valida(pregunta)
    THEN [es_sensible |-> FALSE, mensaje |-> ""]
    ELSE IF AnySearch(PATRONES_CONSULTAS_SENSIBLES, LowerSeq(pregunta))
    THEN [es_sensible |-> TRUE, mensaje |-> mensaje_rechazo_de(LowerSeq(pregunta))]
    ELSE [es_sensible |-> FALSE, mensaje |-> ""]

patrones_estructura ==
    << << W({"what", "que", "cuale", "cuales", "which"}), W(Tablas4) >>,
       << W({"show", "mostrar", "ver", "listar"}), W(Tablas4) >>,
       << W({"database", "base"}),
          W({"structure", "estructura", "schema", "esquema"}) >> >>

MSG_ESTRUCTURA_PUBLICA ==
    "Tengo acceso únicamente a la tabla de medallistas olímpicos (medallas_olimpicas) que contiene información sobre: ... ¿Te gustaría consultar algún dato específico sobre medallistas olímpicos?"

\* returns (es_estructura, respuesta_estructura)
validar_respuesta_estructura_db(pregunta) ==
    IF AnySearch(patrones_estructura, LowerSeq(pregunta))
    THEN [es_estructura |-> TRUE, mensaje |-> MSG_ESTRUCTURA_PUBLICA]
    ELSE [es_estructura |-> FALSE, mensaje |-> ""]

(***************************************************************************)
(* Heuristic deberia_tener_resultados: chat.py 699-748                     *)
(***************************************************************************)
Ciudades4 == {"ciudade", "ciudades", "citie", "cities"}

excepciones_sin_resultados ==
    << << W(Ciudades4 \cup {"city"}),
          WP({ <<"repetida">>, <<"repetidas">>, <<"múltiple">>, <<"múltiples">>,
               <<"multiple">>, <<"multiples">>, <<"más", "de", "una">>,
               <<"more", "than", "once">>, <<"repeate">>, <<"repeated">> }) >>,
       << W({"sede", "host", "hosting"}),
          WP({ <<"más", "de", "una">>, <<"multiple">>, <<"several">>,
               <<"varia">>, <<"varias">> }),
          W({"olimpiada", "olimpiadas", "olympic", "olympics"}) >>,
       << W({"qué", "what", "cuále", "cuáles", "which"}),
          W(Ciudades4),
          WP({ <<"han", "sido", "sede">>, <<"hoste">>, <<"hosted">> }),
          WP({ <<"más", "de">>, <<"multiple">>, <<"varia">>, <<"varias">> }) >> >>

patrones_con_resultados ==
    << << W({"swimming", "natación", "natacion", "aquatics"}),
          W({"countries", "países", "paises", "country"}) >>,
       << W({"countries", "países", "paises"}),
          W({"gold", "oro", "medals", "medallas"}) >>,
       << WP({ <<"usa">>, <<"united", "states">>, <<"estados", "unidos">> }),
          W({"medals", "medallas"}) >>,
       << W({"athletes", "atletas"}), W({"medals", "medallas"}) >>,
       << W({"athletics", "atletismo", "gymnastics", "gimnasia",
             "swimming", "natación"}) >>,
       << WP({ <<"usa">>, <<"united", "states">>, <<"china">>, <<"russia">>,
               <<"germany">>, <<"australia">>, <<"brazil">>, <<"brasil">> }) >>,
       << W({"gold", "silver", "bronze", "oro", "plata", "bronce"}),
          W({"medals", "medallas"}) >>,
       << W({"1976", "1980", "1984", "1988", "1992", "1996", "2000",
             "2004", "2008"}) >>,
       << W(Ciudades4),
          W({"anfitriona", "anfitrionas", "host", "hosting", "sede"}) >> >>

es_excepcion_sin_resultados(pregunta) ==
    AnySearch(excepciones_sin_resultados, LowerSeq(pregunta))

\* deberia_tener_resultados without the exception list
deberia_tener_resultados_sin_excepciones(pregunta) ==
    AnySearch(patrones_con_resultados, LowerSeq(pregunta))

\* deberia_tener_resultados trying the positive patterns before the
\* exceptions
deberia_tener_resultados_positivos_primero(pregunta) ==
    IF AnySearch(patrones_con_resultados, LowerSeq(pregunta)) THEN TRUE
    ELSE IF es_excepcion_sin_resultados(pregunta) THEN FALSE
    ELSE FALSE

\* chat.py 699-748
deberia_tener_resultados(pregunta) ==
    IF es_excepcion_sin_resultados(pregunta) THEN FALSE
    ELSE AnySearch(patrones_con_resultados, LowerSeq(pregunta))

(***************************************************************************)
(* Questions of the model                                                  *)
(***************************************************************************)
Vocabulario ==
    { "show", "tables", "women", "sports", "brazil" }

SeqsHasta(S, n) == UNION { [1..k -> S] : k \in 0..n }

PreguntasEjemplo ==
    { << "Show", "me", "the", "users", "table" >>,
      << "DROP", "TABLE", "medallas_olimpicas" >>,
      << "how", "many", "gold", "medals", "did", "Brazil", "win" >>,
      << "what", "tables", "have", "women", "sports" >>,
      << "Women", "medals", "users", "password" >>,
      << "which", "cities", "hosted", "more", "than", "once" >>,
      << "which", "cities", "were", "host", "more", "than", "once" >>,
      << "cities", "repeated" >>,
      << "repeated", "cities", "brazil" >>,
      << "countries", "swimming", "medals" >>,
      << "swimming", "medals", "1996" >>,
      << "users", "password" >>,
      << "system", "config", "data" >>,
      << "chat", "messages", "other", "users" >>,
      << "what", "baseball", "medals" >>,
      << "database", "schema" >>,
      << "which", "pg_columns" >>,
      << "grant", "permissions" >>,
      << "which", "tables" >>,
      << "database", "structure" >>,
      << "delete", "medals" >>,
      << "Women", "swimming" >>,
      << "hello" >> }

Preguntas == PreguntasEjemplo \cup SeqsHasta(Vocabulario, MaxPreguntaLen)

(***************************************************************************)
(* Texts other than the question are sequences of fragments.  None of      *)
(* Python is the empty sequence and a present value x is <<x>>.            *)
(***************************************************************************)
None == << >>
Some(x) == << x >>

\* the code-fence marker (three backquotes), alone and tagged as SQL
FENCE == "[fence]"
FENCE_SQL == "[fence]sql"
WS == " "

\* the fragments that contain the fence marker
Fences == {FENCE, FENCE_SQL}

RECURSIVE Strip(_)
\* str.strip()
Strip(t) ==
    IF t = << >> THEN t
    ELSE IF Head(t) = WS THEN Strip(Tail(t))
    ELSE IF t[Len(t)] = WS THEN Strip(SubSeq(t, 1, Len(t) - 1))
    ELSE t

\* first index >= from of a fragment that is in S, or Len(t) + 1
PrimerIndice(t, from, S) ==
    IF \E i \in from..Len(t) : t[i] \in S
    THEN CHOOSE i \in from..Len(t) :
            t[i] \in S /\ \A j \in from..(i - 1) : t[j] \notin S
    ELSE Len(t) + 1

\* chat.py 596-605: the clean-up of the primary generator's response
LimpiarRespuestaSQL(texto) ==
    LET sql_query == Strip(texto) IN
    IF \E i \in 1..Len(sql_query) : sql_query[i] = FENCE_SQL
    THEN \* sql_query.split(FENCE_SQL)[1].split(FENCE)[0].strip()
         LET a == PrimerIndice(sql_query, 1, {FENCE_SQL})
             b == PrimerIndice(sql_query, a + 1, Fences)
         IN Strip(SubSeq(sql_query, a + 1, b - 1))
    ELSE IF \E i \in 1..Len(sql_query) : sql_query[i] \in Fences
    THEN \* sql_query.split(FENCE)[1].strip()
         LET a == PrimerIndice(sql_query, 1, Fences)
             b == PrimerIndice(sql_query, a + 1, Fences)
         IN Strip(SubSeq(sql_query, a + 1, b - 1))
    ELSE sql_query

SQL_SELECT_MEDALLAS ==
    "SELECT country, COUNT(*) AS total FROM medallas_olimpicas WHERE medal = 'Gold' GROUP BY country ORDER BY total DESC LIMIT 50"
SQL_DELETE_USUARIOS == "DELETE FROM usuarios"
SQL_POR_DEFECTO ==
    "SELECT DISTINCT country, COUNT(*) as total_medals FROM medallas_olimpicas WHERE medal = 'Gold' GROUP BY country ORDER BY total_medals DESC LIMIT 10;"

\* what the LLM may answer to a SQL prompt
RespuestasLLM_SQL ==
    { << SQL_SELECT_MEDALLAS >>,
      << FENCE_SQL, WS, SQL_SELECT_MEDALLAS, WS, FENCE >>,
      << SQL_DELETE_USUARIOS >>,
      << WS >> }

\* what the LLM may answer to an answer prompt
RespuestasLLM_Texto ==
    { << "Brasil ganó medallas de oro en vóleibol y fútbol.", WS >>,
      << WS >> }

(***************************************************************************)
(* SQL executor: chat.py 622-697                                           *)
(***************************************************************************)
\* values of a result column as the driver returns them
ValorCrudo(i) ==
    CASE i % 4 = 1 -> [tipo |-> "str", v |-> i]
      [] i % 4 = 2 -> [tipo |-> "Decimal", v |-> i]
      [] i % 4 = 3 -> [tipo |-> "datetime", v |-> i]
      [] OTHER -> [tipo |-> "NoneType", v |-> 0]

\* chat.py 640-653
convertir_valor(value) ==
    CASE value.tipo = "NoneType" -> value
      [] value.tipo = "Decimal" -> [tipo |-> "float", v |-> value.v]
      [] value.tipo = "datetime" -> [tipo |-> "isoformat", v |-> value.v]
      [] OTHER -> value

\* the rows of a result of n rows, converted (chat.py 636-654)
Filas(n) == [i \in 1..n |-> [id |-> i, valor |-> convertir_valor(ValorCrudo(i))]]

NumerosDeFilas == {0, 1, MaxFilas}

\* messages of the errors the store may raise, as the fragments they contain
ErroresDB ==
    { << "(psycopg2.errors.", "InvalidColumnReference", ")" >>,
      << "ORDER BY expressions must appear", " in argument list" >>,
      << "syntax error", " at or near" >>,
      << "column", " x ", "does not exist" >>,
      << "relation", " usuarios ", "does not exist" >>,
      << "function", " f ", "does not exist" >>,
      << "null value in ", "column", " violates not-null constraint" >>,
      << "connection refused" >> }

LowerFragmento(f) ==
    CASE f = "InvalidColumnReference" -> "invalidcolumnreference"
      [] f = "ORDER BY expressions must appear" -> "order by expressions must appear"
      [] OTHER -> f

\* s in str(e).lower()
EnMensaje(s, e) == \E i \in 1..Len(e) : LowerFragmento(e[i]) = s

\* clasificar_error testing str(e) as raised, not lower-cased
clasificar_error_sin_lower(e) ==
    LET En(x) == \E i \in 1..Len(e) : e[i] = x IN
    IF En("invalidcolumnreference") \/ En("order by expressions must appear")
    THEN "SQLSyntaxError"
    ELSE IF En("syntax error") THEN "SQLSyntaxError"
    ELSE IF En("column") /\ En("does not exist") THEN "SQLSyntaxError"
    ELSE IF En("relation") /\ En("does not exist") THEN "SQLSyntaxError"
    ELSE "SQLExecutionError"

\* chat.py 668-687: the exception class raised for the store's error e
clasificar_error(e) ==
    IF EnMensaje("invalidcolumnreference", e)
       \/ EnMensaje("order by expressions must appear", e)
    THEN "SQLSyntaxError"
    ELSE IF EnMensaje("syntax error", e) THEN "SQLSyntaxError"
    ELSE IF EnMensaje("column", e) /\ EnMensaje("does not exist", e)
    THEN "SQLSyntaxError"
    ELSE IF EnMensaje("relation", e) /\ EnMensaje("does not exist", e)
    THEN "SQLSyntaxError"
    ELSE "SQLExecutionError"

\* chat.py 668-687: the message of the exception raised for the error e
mensaje_de_error(e) ==
    IF EnMensaje("invalidcolumnreference", e)
       \/ EnMensaje("order by expressions must appear", e)
    THEN << "Complex aggregation query requires restructuring" >>
    ELSE IF EnMensaje("syntax error", e)
    THEN << "Invalid SQL syntax generated" >>
    ELSE IF EnMensaje("column", e) /\ EnMensaje("does not exist", e)
    THEN << "Column reference error in query" >>
    ELSE IF EnMensaje("relation", e) /\ EnMensaje("does not exist", e)
    THEN << "Table reference error in query" >>
    ELSE << "Database query execution failed: " >> \o e

\* str(e) of a db.rollback() that fails
ERROR_ROLLBACK == << "Can't reconnect until invalid transaction is rolled back" >>

\* what a call of ejecutar_sql returns (tipo "ok") or raises
Salida(tipo, filas, mensaje) == [ tipo |-> tipo, filas |-> filas, mensaje |-> mensaje ]

SinSalida == Salida("ninguna", << >>, << >>)

\* the outcomes of one call of ejecutar_sql (chat.py 622-687) as the
\* orchestrator sees them: the rows, or the classified exception raised for
\* the error e of the try block after one call of db.rollback(); rollback_ok
\* tells whether that call succeeded
ejecutar_sql ==
    { [tipo |-> "ok", filas |-> Filas(n), error |-> None, mensaje |-> None,
       rollbacks |-> 0, rollback_ok |-> TRUE] : n \in NumerosDeFilas }
    \cup
    { [tipo |-> clasificar_error(e), filas |-> << >>, error |-> e,
       mensaje |-> mensaje_de_error(e), rollbacks |-> 1, rollback_ok |-> b] :
          e \in ErroresDB, b \in BOOLEAN }

(***************************************************************************)
(* SQL generator, simplified path: chat.py 751-805                         *)
(***************************************************************************)
\* obtener_consulta_sql_simplificada without the except clause: a failure of
\* the LLM call is raised to the caller
obtener_consulta_sql_simplificada_propaga(cliente) ==
    IF ~cliente
    THEN { [raises |-> TRUE, llm |-> FALSE, sql |-> << >>, salida |-> "raise"] }
    ELSE { [raises |-> TRUE, llm |-> TRUE, sql |-> << >>, salida |-> "raise"] }
         \cup
         { [raises |-> FALSE, llm |-> TRUE, sql |-> Strip(r), salida |-> "llm"] :
               r \in RespuestasLLM_SQL }

\* the outcomes of one call: the client is missing (raises), the LLM call
\* fails (the hardcoded default is returned) or the LLM answers
obtener_consulta_sql_simplificada(cliente) ==
    IF ~cliente
    THEN { [raises |-> TRUE, llm |-> FALSE, sql |-> << >>, salida |-> "raise"] }
    ELSE { [raises |-> FALSE, llm |-> TRUE, sql |-> << SQL_POR_DEFECTO >>,
            salida |-> "defecto"] }
         \cup
         { [raises |-> FALSE, llm |-> TRUE, sql |-> Strip(r), salida |-> "llm"] :
               r \in RespuestasLLM_SQL }

(***************************************************************************)
(* Orchestrator procesar_consulta_chat: chat.py 905-1085                   *)
(***************************************************************************)
PROMPT_POR_DEFECTO ==
    << "Eres un asistente especializado en análisis de datos olímpicos de verano (1976-2008)." >>
PROMPT_ADMIN == << "Eres un comentarista deportivo." >>

MSG_FALLBACK_FALLO ==
    "Lo siento, tuve dificultades técnicas procesando tu consulta sobre los datos olímpicos. ¿Podrías reformularla de manera más simple? Por ejemplo, puedes preguntarme sobre medallas por país, deporte específico, o año."
MSG_ERROR_EJECUCION ==
    "Encontré un problema al acceder a los datos olímpicos. Por favor, intenta con una consulta diferente o más específica."
MSG_ERROR_PREFIJO ==
    "Lo siento, tuve dificultades procesando tu consulta sobre los datos olímpicos. "
SUGERENCIA_PAISES ==
    "¿Podrías preguntarme de forma más específica sobre un país en particular o un deporte específico?"
SUGERENCIA_NATACION ==
    "¿Podrías preguntarme sobre nadadores específicos o medallas de natación de un país en particular?"
SUGERENCIA_GENERO ==
    "¿Podrías preguntarme de forma más específica sobre atletas masculinos o femeninos en un deporte particular?"
SUGERENCIA_DEFECTO ==
    "¿Podrías reformular tu pregunta de manera más simple? Por ejemplo: '¿Qué países ganaron más medallas de oro?' o '¿Cuántas medallas ganó Estados Unidos en natación?'"

\* any(palabra in pregunta_lower for palabra in palabras)
AlgunaEn(palabras, q) ==
    \E i \in 1..Len(q) : \E s \in palabras : Contiene(q[i], s)

\* mensaje_error_de testing the gender words before the swimming words
mensaje_error_de_genero_primero(pregunta) ==
    LET q == LowerSeq(pregunta) IN
    << MSG_ERROR_PREFIJO,
       IF AlgunaEn({"countries", "países", "paises", "country"}, q)
       THEN SUGERENCIA_PAISES
       ELSE IF AlgunaEn({"female", "male", "men", "women", "género", "genero"}, q)
       THEN SUGERENCIA_GENERO
       ELSE IF AlgunaEn({"swimming", "natación", "natacion"}, q)
       THEN SUGERENCIA_NATACION
       ELSE SUGERENCIA_DEFECTO >>

\* chat.py 1066-1077
mensaje_error_de(pregunta) ==
    LET q == LowerSeq(pregunta) IN
    << MSG_ERROR_PREFIJO,
       IF AlgunaEn({"countries", "países", "paises", "country"}, q)
       THEN SUGERENCIA_PAISES
       ELSE IF AlgunaEn({"swimming", "natación", "natacion"}, q)
       THEN SUGERENCIA_NATACION
       ELSE IF AlgunaEn({"female", "male", "men", "women", "género", "genero"}, q)
       THEN SUGERENCIA_GENERO
       ELSE SUGERENCIA_DEFECTO >>

MUESTRA_MAX == 5

Min(a, b) == IF a <= b THEN a ELSE b

\* a returned dictionary; the keys rechazada and fallback_used are absent
\* from some of them
Dict(respuesta, consulta_sql, datos_contexto, rechazada, fallback_used) ==
    [ respuesta |-> respuesta, consulta_sql |-> consulta_sql,
      datos_contexto |-> datos_contexto, error |-> FALSE,
      rechazada |-> rechazada, fallback_used |-> fallback_used ]

SinResultado == Dict(<< >>, None, None, "ausente", "ausente")

\* messages of the exceptions that reach the outer handler
ERROR_SIN_CLIENTE == "Cliente de Anthropic no inicializado"
ERROR_GENERAR_SQL == "Error al generar consulta SQL: "
ERROR_GENERAR_RESPUESTA == "Error al generar respuesta: "
\* str(e) of a failed request to the LLM service
ERROR_LLM == "Connection error."
\* str(e) of client.messages when client is None
ERROR_SIN_ATRIBUTO == "'NoneType' object has no attribute 'messages'"
\* str(e) of a failed ORM query
ERROR_ALMACEN == "(psycopg2.OperationalError) server closed the connection unexpectedly"

VARIABLES
    client,              \* the module-level LLM client is not None
    db_prompt,           \* the active ConfiguracionPrompt of the context, or None
    db_terminos,         \* the active TerminoExcluido rows of the user
    transaccion,         \* the session has a transaction in progress
    pregunta,            \* argument of procesar_consulta_chat
    pc,                  \* position in procesar_consulta_chat
    prompt_contexto,     \* locals of procesar_consulta_chat
    terminos_excluidos,
    sql_query,
    sql_query_fallback,
    resultados_sql,
    resultado,           \* the dictionary returned, once pc = "done"
    llamadas_llm,        \* the requests sent to the LLM service, in order
    lecturas_db,         \* the ORM reads of the store, in order
    ejecuciones,         \* the calls of ejecutar_sql, in order
    generaciones,        \* the calls of the two SQL generators, in order
    excepcion,           \* str(e) of the exception raised to the outer try
    ej_pc,               \* position in a call of ejecutar_sql observed alone
    ej_sql,              \* its argument sql_query
    ej_error,            \* str(e) of the exception caught at chat.py 659
    ej_rollbacks,        \* number of calls of db.rollback()
    ej_rollback_ok,      \* the call of db.rollback() returned
    ej_salida,           \* what the call returned or raised
    gen_pc,              \* position in a call of a SQL generator observed alone
    gen_fn,              \* which of the two generators is called
    gen_respuesta,       \* message.content[0].text of the LLM's reply
    gen_sql,             \* the statement the generator returns
    hist_pc,             \* position in the building of the two prompts
    historial_conversacion,  \* argument of both prompt builders
    contexto_sql,        \* contexto_conversacion of obtener_consulta_sql
    contexto_respuesta,  \* contexto_conversacion of generar_respuesta_final
    decisiones,          \* what the guard functions returned when called again
    te_tabla,            \* the rows of the table terminos_excluidos
    te_siguiente,        \* the id the table gives to its next row
    te_respuesta,        \* the response to the last request on the table
    te_lectura,          \* the terms an invocation read, and its prompt block
    ms_pc,               \* position in procesar_mensaje_chat
    ms_peticion,         \* chat_request.id_conversacion
    ms_conversacion_id,  \* the local conversacion_id
    ms_conversaciones,   \* the rows of the table conversaciones
    ms_mensajes,         \* the committed rows of the table mensajes
    ms_sesion,           \* the rows the session has added and not committed
    ms_reloj,            \* the last id and timestamp given to a row
    ms_historial,        \* the history passed to procesar_consulta_chat
    ms_salida,           \* what procesar_mensaje_chat returned or raised
    us_tabla,            \* the rows of the table usuarios
    us_respuesta         \* the response to the last user-management request

vars ==
    << client, db_prompt, db_terminos, transaccion, pregunta, pc,
       prompt_contexto, terminos_excluidos, sql_query, sql_query_fallback,
       resultados_sql, resultado, llamadas_llm, lecturas_db, ejecuciones,
       generaciones, excepcion, ej_pc, ej_sql, ej_error, ej_rollbacks,
       ej_rollback_ok, ej_salida, gen_pc, gen_fn, gen_respuesta, gen_sql,
       hist_pc, historial_conversacion, contexto_sql, contexto_respuesta,
       decisiones, te_tabla, te_siguiente, te_respuesta, te_lectura,
       ms_pc, ms_peticion, ms_conversacion_id, ms_conversaciones, ms_mensajes,
       ms_sesion, ms_reloj, ms_historial, ms_salida, us_tabla, us_respuesta >>

ejecutor == << ej_pc, ej_sql, ej_error, ej_rollbacks, ej_rollback_ok, ej_salida >>

generador == << gen_pc, gen_fn, gen_respuesta, gen_sql >>

constructor == << hist_pc, historial_conversacion, contexto_sql, contexto_respuesta >>

terminos_tabla == << te_tabla, te_siguiente, te_respuesta, te_lectura >>

mensajes_capa ==
    << ms_pc, ms_peticion, ms_conversacion_id, ms_conversaciones, ms_mensajes,
       ms_sesion, ms_reloj, ms_historial, ms_salida >>

usuarios_tabla == << us_tabla, us_respuesta >>

\* the tables and the requests around the invocation
capas == << terminos_tabla, mensajes_capa, usuarios_tabla >>

\* the functions observed alone, apart from the invocation, and the layers
\* around it
aparte == << generador, constructor, decisiones, capas >>

\* no request on the table terminos_excluidos is being observed
TerminosInactivos ==
    /\ te_tabla = {}
    /\ te_siguiente = 1
    /\ te_respuesta = << >>
    /\ te_lectura = << >>

\* no call of procesar_mensaje_chat is being observed
MensajesInactivos ==
    /\ ms_pc = "inactivo"
    /\ ms_peticion = << >>
    /\ ms_conversacion_id = 0
    /\ ms_conversaciones = {}
    /\ ms_mensajes = {}
    /\ ms_sesion = {}
    /\ ms_reloj = 0
    /\ ms_historial = << >>
    /\ ms_salida = << >>

\* no user-management request is being observed
UsuariosInactivos ==
    /\ us_tabla = {}
    /\ us_respuesta = << >>

CapasInactivas ==
    /\ TerminosInactivos
    /\ MensajesInactivos
    /\ UsuariosInactivos

\* no function is being observed alone
AparteInactivo ==
    /\ gen_pc = "inactivo"
    /\ gen_fn = ""
    /\ gen_respuesta = << >>
    /\ gen_sql = << >>
    /\ hist_pc = "inactivo"
    /\ historial_conversacion = << >>
    /\ contexto_sql = << >>
    /\ contexto_respuesta = << >>
    /\ decisiones = {}
    /\ CapasInactivas

locales == << prompt_contexto, terminos_excluidos, sql_query,
              sql_query_fallback, resultados_sql >>
almacen == << client, db_prompt, db_terminos, pregunta >>

Init ==
    /\ client \in BOOLEAN
    /\ db_prompt \in { None, Some(PROMPT_ADMIN) }
    /\ db_terminos \in { << >>, << "brasil" >> }
    /\ transaccion = FALSE
    /\ pregunta \in Preguntas
    /\ pc = "inicio"
    /\ prompt_contexto = << >>
    /\ terminos_excluidos = << >>
    /\ sql_query = << >>
    /\ sql_query_fallback = << >>
    /\ resultados_sql = << >>
    /\ resultado = SinResultado
    /\ llamadas_llm = << >>
    /\ lecturas_db = << >>
    /\ ejecuciones = << >>
    /\ generaciones = << >>
    /\ excepcion = None
    /\ ej_pc = "inactivo"
    /\ ej_sql = << >>
    /\ ej_error = None
    /\ ej_rollbacks = 0
    /\ ej_rollback_ok = FALSE
    /\ ej_salida = SinSalida
    /\ AparteInactivo

\* Validar with the two checks in the other order
ValidarEstructuraPrimero ==
    /\ pc = "inicio"
    /\ LET d == detectar_consulta_sensible(pregunta)
           e == validar_respuesta_estructura_db(pregunta)
       IN IF e.es_estructura
          THEN /\ resultado' = Dict(<< e.mensaje >>, None, None, "False", "ausente")
               /\ pc' = "done"
          ELSE IF d.es_sensible
          THEN /\ resultado' = Dict(<< d.mensaje >>, None, None, "True", "ausente")
               /\ pc' = "done"
          ELSE /\ pc' = "prompt"
               /\ UNCHANGED resultado
    /\ UNCHANGED << ejecutor, aparte, almacen, transaccion, locales, llamadas_llm, lecturas_db,
                    ejecuciones, generaciones, excepcion >>

\* chat.py 920-942: the two guard checks
Validar ==
    /\ pc = "inicio"
    /\ LET d == detectar_consulta_sensible(pregunta)
           e == validar_respuesta_estructura_db(pregunta)
       IN IF d.es_sensible
          THEN /\ resultado' = Dict(<< d.mensaje >>, None, None, "True", "ausente")
               /\ pc' = "done"
          ELSE IF e.es_estructura
          THEN /\ resultado' = Dict(<< e.mensaje >>, None, None, "False", "ausente")
               /\ pc' = "done"
          ELSE /\ pc' = "prompt"
               /\ UNCHANGED resultado
    /\ UNCHANGED << ejecutor, aparte, almacen, transaccion, locales, llamadas_llm, lecturas_db,
                    ejecuciones, generaciones, excepcion >>

\* chat.py 945 and 221-249
ObtenerPromptContexto ==
    /\ pc = "prompt"
    /\ lecturas_db' = Append(lecturas_db, "prompt")
    /\ \/ /\ prompt_contexto' =
                 (IF db_prompt # None THEN db_prompt[1] ELSE PROMPT_POR_DEFECTO)
          /\ transaccion' = TRUE
          /\ pc' = "terminos"
          /\ UNCHANGED excepcion
       \/ \* the query raises
          /\ pc' = "except"
          /\ excepcion' = << ERROR_ALMACEN >>
          /\ UNCHANGED << prompt_contexto, transaccion >>
    /\ UNCHANGED << ejecutor, aparte, almacen, terminos_excluidos, sql_query, sql_query_fallback,
                    resultados_sql, resultado, llamadas_llm, ejecuciones,
                    generaciones >>

\* chat.py 948 and 251-271
ObtenerTerminosExcluidos ==
    /\ pc = "terminos"
    /\ lecturas_db' = Append(lecturas_db, "terminos")
    /\ \/ /\ terminos_excluidos' = db_terminos
          /\ pc' = "generar"
          /\ UNCHANGED excepcion
       \/ \* the query raises
          /\ pc' = "except"
          /\ excepcion' = << ERROR_ALMACEN >>
          /\ UNCHANGED terminos_excluidos
    /\ UNCHANGED << ejecutor, aparte, almacen, transaccion, prompt_contexto, sql_query,
                    sql_query_fallback, resultados_sql, resultado, llamadas_llm,
                    ejecuciones, generaciones >>

\* a request to the LLM service
Llamada(tipo, prompt, terminos, filas) ==
    [ tipo |-> tipo, prompt_contexto |-> prompt, terminos |-> terminos,
      filas |-> filas ]

\* one call of a SQL generator: the function, the excluded terms its prompt
\* lists, and whether it raised, returned the LLM's text or the default query
Generacion(fn, terminos, salida) ==
    [ fn |-> fn, terminos |-> terminos, salida |-> salida ]

\* ObtenerConsultaSql starting the simplified fallback when the LLM call
\* fails, instead of raising to the outer handler
ObtenerConsultaSqlConFallback ==
    /\ pc = "generar"
    /\ IF ~client
       THEN /\ pc' = "except"
            /\ excepcion' = << ERROR_SIN_CLIENTE >>
            /\ generaciones' = Append(generaciones,
                    Generacion("obtener_consulta_sql", terminos_excluidos, "raise"))
            /\ UNCHANGED << sql_query, llamadas_llm >>
       ELSE /\ llamadas_llm' = Append(llamadas_llm,
                    Llamada("sql", prompt_contexto, terminos_excluidos, 0))
            /\ \/ \E r \in RespuestasLLM_SQL :
                     /\ sql_query' = LimpiarRespuestaSQL(r)
                     /\ pc' = "ejecutar"
                     /\ generaciones' = Append(generaciones,
                            Generacion("obtener_consulta_sql", terminos_excluidos,
                                       "llm"))
               \/ /\ pc' = "sintaxis_generar"
                  /\ generaciones' = Append(generaciones,
                         Generacion("obtener_consulta_sql", terminos_excluidos,
                                    "raise"))
                  /\ UNCHANGED sql_query
            /\ UNCHANGED excepcion
    /\ UNCHANGED << ejecutor, aparte, almacen, transaccion, prompt_contexto, terminos_excluidos,
                    sql_query_fallback, resultados_sql, resultado, lecturas_db,
                    ejecuciones >>

\* chat.py 962 and 356-620: primary SQL generation
ObtenerConsultaSql ==
    /\ pc = "generar"
    /\ IF ~client
       THEN \* chat.py 365-366
            /\ pc' = "except"
            /\ excepcion' = << ERROR_SIN_CLIENTE >>
            /\ generaciones' = Append(generaciones,
                    Generacion("obtener_consulta_sql", terminos_excluidos, "raise"))
            /\ UNCHANGED << sql_query, llamadas_llm >>
       ELSE /\ llamadas_llm' = Append(llamadas_llm,
                    Llamada("sql", prompt_contexto, terminos_excluidos, 0))
            /\ \/ \E r \in RespuestasLLM_SQL :
                     /\ sql_query' = LimpiarRespuestaSQL(r)
                     /\ pc' = "ejecutar"
                     /\ generaciones' = Append(generaciones,
                            Generacion("obtener_consulta_sql", terminos_excluidos,
                                       "llm"))
                     /\ UNCHANGED excepcion
               \/ \* the LLM call raises: chat.py 616-620
                  /\ pc' = "except"
                  /\ excepcion' = << ERROR_GENERAR_SQL, ERROR_LLM >>
                  /\ generaciones' = Append(generaciones,
                         Generacion("obtener_consulta_sql", terminos_excluidos,
                                    "raise"))
                  /\ UNCHANGED sql_query
    /\ UNCHANGED << ejecutor, aparte, almacen, transaccion, prompt_contexto, terminos_excluidos,
                    sql_query_fallback, resultados_sql, resultado, lecturas_db,
                    ejecuciones >>

\* the record of one call of ejecutar_sql
Ejecucion(sql, r) == [ sql |-> sql, tipo |-> r.tipo, filas |-> Len(r.filas) ]

\* db.execute begins a transaction; the error path rolls it back
TransaccionTras(r) == IF r.tipo = "ok" THEN TRUE ELSE ~r.rollback_ok

\* chat.py 1014: the step after a result was obtained
TrasResultados(filas) ==
    IF Len(filas) = 0 /\ deberia_tener_resultados(pregunta)
    THEN "vacio_generar" ELSE "respuesta"

\* EjecutarPrimaria with one except clause for both error classes: a
\* SQLExecutionError starts the simplified fallback too
EjecutarPrimariaReintentaTodo ==
    /\ pc = "ejecutar"
    /\ \E r \in ejecutar_sql :
          /\ ejecuciones' = Append(ejecuciones, Ejecucion(sql_query, r))
          /\ transaccion' = TransaccionTras(r)
          /\ IF r.tipo = "ok"
             THEN /\ resultados_sql' = r.filas
                  /\ pc' = TrasResultados(r.filas)
                  /\ UNCHANGED resultado
             ELSE /\ pc' = "sintaxis_generar"
                  /\ UNCHANGED << resultados_sql, resultado >>
    /\ UNCHANGED << ejecutor, aparte, almacen, prompt_contexto, terminos_excluidos, sql_query,
                    sql_query_fallback, llamadas_llm, lecturas_db, generaciones,
                    excepcion >>

\* chat.py 965-996: execution of the primary statement
EjecutarPrimaria ==
    /\ pc = "ejecutar"
    /\ \E r \in ejecutar_sql :
          /\ ejecuciones' = Append(ejecuciones, Ejecucion(sql_query, r))
          /\ transaccion' = TransaccionTras(r)
          /\ IF r.tipo = "ok"
             THEN /\ resultados_sql' = r.filas
                  /\ pc' = TrasResultados(r.filas)
                  /\ UNCHANGED resultado
             ELSE IF r.tipo = "SQLSyntaxError"
             THEN /\ pc' = "sintaxis_generar"
                  /\ UNCHANGED << resultados_sql, resultado >>
             ELSE /\ resultado' = Dict(<< MSG_ERROR_EJECUCION >>, None, None,
                                       "ausente", "True")
                  /\ pc' = "done"
                  /\ UNCHANGED resultados_sql
    /\ UNCHANGED << ejecutor, aparte, almacen, prompt_contexto, terminos_excluidos, sql_query,
                    sql_query_fallback, llamadas_llm, lecturas_db, generaciones,
                    excepcion >>

\* chat.py 972-975: simplified generation after a syntax error
SintaxisGenerar ==
    /\ pc = "sintaxis_generar"
    /\ \E g \in obtener_consulta_sql_simplificada(client) :
          IF g.raises
          THEN \* caught at chat.py 978
               /\ resultado' = Dict(<< MSG_FALLBACK_FALLO >>, None, None,
                                    "ausente", "True")
               /\ pc' = "done"
               /\ generaciones' = Append(generaciones,
                      Generacion("obtener_consulta_sql_simplificada", << >>, g.salida))
               /\ UNCHANGED << sql_query_fallback, llamadas_llm >>
          ELSE /\ llamadas_llm' = Append(llamadas_llm,
                       Llamada("simplificada", prompt_contexto, << >>, 0))
               /\ generaciones' = Append(generaciones,
                      Generacion("obtener_consulta_sql_simplificada", << >>, g.salida))
               /\ sql_query_fallback' = g.sql
               /\ pc' = "sintaxis_ejecutar"
               /\ UNCHANGED resultado
    /\ UNCHANGED << ejecutor, aparte, almacen, transaccion, prompt_contexto, terminos_excluidos,
                    sql_query, resultados_sql, lecturas_db, ejecuciones,
                    excepcion >>

\* SintaxisEjecutar without the inner try: a failure of the simplified
\* statement reaches the outer handler
SintaxisEjecutarSinTry ==
    /\ pc = "sintaxis_ejecutar"
    /\ \E r \in ejecutar_sql :
          /\ ejecuciones' = Append(ejecuciones, Ejecucion(sql_query_fallback, r))
          /\ transaccion' = TransaccionTras(r)
          /\ IF r.tipo = "ok"
             THEN /\ resultados_sql' = r.filas
                  /\ sql_query' = sql_query_fallback
                  /\ pc' = TrasResultados(r.filas)
             ELSE /\ pc' = "except"
                  /\ UNCHANGED << resultados_sql, sql_query >>
    /\ UNCHANGED << ejecutor, aparte, almacen, prompt_contexto, terminos_excluidos,
                    sql_query_fallback, resultado, llamadas_llm, lecturas_db,
                    generaciones, excepcion >>

\* SintaxisEjecutar executing the primary statement a second time
SintaxisEjecutarRepitePrimaria ==
    /\ pc = "sintaxis_ejecutar"
    /\ \E r \in ejecutar_sql :
          /\ ejecuciones' = Append(ejecuciones, Ejecucion(sql_query, r))
          /\ transaccion' = TransaccionTras(r)
          /\ IF r.tipo = "ok"
             THEN /\ resultados_sql' = r.filas
                  /\ pc' = TrasResultados(r.filas)
                  /\ UNCHANGED resultado
             ELSE /\ resultado' = Dict(<< MSG_FALLBACK_FALLO >>, None, None,
                                       "ausente", "True")
                  /\ pc' = "done"
                  /\ UNCHANGED resultados_sql
    /\ UNCHANGED << ejecutor, aparte, almacen, prompt_contexto, terminos_excluidos,
                    sql_query, sql_query_fallback, llamadas_llm, lecturas_db,
                    generaciones, excepcion >>

\* chat.py 976-987: execution of the simplified statement after a syntax error
SintaxisEjecutar ==
    /\ pc = "sintaxis_ejecutar"
    /\ \E r \in ejecutar_sql :
          /\ ejecuciones' = Append(ejecuciones, Ejecucion(sql_query_fallback, r))
          /\ transaccion' = TransaccionTras(r)
          /\ IF r.tipo = "ok"
             THEN /\ resultados_sql' = r.filas
                  /\ sql_query' = sql_query_fallback
                  /\ pc' = TrasResultados(r.filas)
                  /\ UNCHANGED resultado
             ELSE /\ resultado' = Dict(<< MSG_FALLBACK_FALLO >>, None, None,
                                       "ausente", "True")
                  /\ pc' = "done"
                  /\ UNCHANGED << resultados_sql, sql_query >>
    /\ UNCHANGED << ejecutor, aparte, almacen, prompt_contexto, terminos_excluidos,
                    sql_query_fallback, llamadas_llm, lecturas_db, generaciones,
                    excepcion >>

\* chat.py 1019-1022: simplified generation after an unexpected empty result
VacioGenerar ==
    /\ pc = "vacio_generar"
    /\ \E g \in obtener_consulta_sql_simplificada(client) :
          /\ generaciones' = Append(generaciones,
                 Generacion("obtener_consulta_sql_simplificada", << >>, g.salida))
          /\ IF g.raises
             THEN \* caught at chat.py 1031
                  /\ pc' = "respuesta"
                  /\ UNCHANGED << sql_query_fallback, llamadas_llm >>
             ELSE /\ llamadas_llm' = Append(llamadas_llm,
                          Llamada("simplificada", prompt_contexto, << >>, 0))
                  /\ sql_query_fallback' = g.sql
                  /\ pc' = "vacio_ejecutar"
    /\ UNCHANGED << ejecutor, aparte, almacen, transaccion, prompt_contexto, terminos_excluidos,
                    sql_query, resultados_sql, resultado, lecturas_db,
                    ejecuciones, excepcion >>

\* VacioEjecutar adopting the retry whenever it succeeds, also with no rows
VacioEjecutarAdoptaSiempre ==
    /\ pc = "vacio_ejecutar"
    /\ \E r \in ejecutar_sql :
          /\ ejecuciones' = Append(ejecuciones, Ejecucion(sql_query_fallback, r))
          /\ transaccion' = TransaccionTras(r)
          /\ IF r.tipo = "ok"
             THEN /\ resultados_sql' = r.filas
                  /\ sql_query' = sql_query_fallback
             ELSE UNCHANGED << resultados_sql, sql_query >>
    /\ pc' = "respuesta"
    /\ UNCHANGED << ejecutor, aparte, almacen, prompt_contexto, terminos_excluidos,
                    sql_query_fallback, resultado, llamadas_llm, lecturas_db,
                    generaciones, excepcion >>

\* chat.py 1023-1032: execution of the simplified statement after an empty result
VacioEjecutar ==
    /\ pc = "vacio_ejecutar"
    /\ \E r \in ejecutar_sql :
          /\ ejecuciones' = Append(ejecuciones, Ejecucion(sql_query_fallback, r))
          /\ transaccion' = TransaccionTras(r)
          /\ IF r.tipo = "ok" /\ Len(r.filas) > 0
             THEN /\ resultados_sql' = r.filas
                  /\ sql_query' = sql_query_fallback
             ELSE UNCHANGED << resultados_sql, sql_query >>
    /\ pc' = "respuesta"
    /\ UNCHANGED << ejecutor, aparte, almacen, prompt_contexto, terminos_excluidos,
                    sql_query_fallback, resultado, llamadas_llm, lecturas_db,
                    generaciones, excepcion >>

\* DatosContexto without the slice of the first rows
DatosContextoMuestraCompleta ==
    [ total_resultados |-> Len(resultados_sql),
      muestra_datos |-> resultados_sql,
      sql_ejecutado |-> sql_query,
      terminos_excluidos_aplicados |-> Len(terminos_excluidos) ]

\* chat.py 1045-1050
DatosContexto ==
    [ total_resultados |-> Len(resultados_sql),
      muestra_datos |->
          SubSeq(resultados_sql, 1, Min(MUESTRA_MAX, Len(resultados_sql))),
      sql_ejecutado |-> sql_query,
      terminos_excluidos_aplicados |-> Len(terminos_excluidos) ]

\* GenerarRespuestaFinal reading the prompt configuration again instead of
\* using the value read at the start of the invocation
GenerarRespuestaFinalRelee ==
    /\ pc = "respuesta"
    /\ lecturas_db' = Append(lecturas_db, "prompt")
    /\ IF ~client
       THEN /\ pc' = "except"
            /\ excepcion' = << ERROR_GENERAR_RESPUESTA, ERROR_SIN_ATRIBUTO >>
            /\ UNCHANGED << resultado, llamadas_llm >>
       ELSE /\ llamadas_llm' = Append(llamadas_llm,
                    Llamada("respuesta",
                            IF db_prompt # None THEN db_prompt[1]
                                                ELSE PROMPT_POR_DEFECTO,
                            << >>, Len(resultados_sql)))
            /\ \/ \E r \in RespuestasLLM_Texto :
                     /\ resultado' = Dict(Strip(r), Some(sql_query),
                                          Some(DatosContexto), "ausente", "ausente")
                     /\ pc' = "done"
                     /\ UNCHANGED excepcion
               \/ /\ pc' = "except"
                  /\ excepcion' = << ERROR_GENERAR_RESPUESTA, ERROR_LLM >>
                  /\ UNCHANGED resultado
    /\ UNCHANGED << ejecutor, aparte, almacen, transaccion, locales, ejecuciones,
                    generaciones >>

\* GenerarRespuestaFinal marking the outcome with fallback_used when the
\* statement reported is the simplified one
GenerarRespuestaFinalMarcaFallback ==
    /\ pc = "respuesta"
    /\ IF ~client
       THEN /\ pc' = "except"
            /\ excepcion' = << ERROR_GENERAR_RESPUESTA, ERROR_SIN_ATRIBUTO >>
            /\ UNCHANGED << resultado, llamadas_llm >>
       ELSE /\ llamadas_llm' = Append(llamadas_llm,
                    Llamada("respuesta", prompt_contexto, << >>,
                            Len(resultados_sql)))
            /\ \/ \E r \in RespuestasLLM_Texto :
                     /\ resultado' = Dict(Strip(r), Some(sql_query),
                                          Some(DatosContexto), "ausente",
                                          IF Len(ejecuciones) > 1 /\ sql_query = sql_query_fallback
                                          THEN "True" ELSE "ausente")
                     /\ pc' = "done"
                     /\ UNCHANGED excepcion
               \/ /\ pc' = "except"
                  /\ excepcion' = << ERROR_GENERAR_RESPUESTA, ERROR_LLM >>
                  /\ UNCHANGED resultado
    /\ UNCHANGED << ejecutor, aparte, almacen, transaccion, locales, lecturas_db, ejecuciones,
                    generaciones >>

\* chat.py 1042-1059 and 808-903: answer generation and the successful return
GenerarRespuestaFinal ==
    /\ pc = "respuesta"
    /\ IF ~client
       THEN \* client.messages raises, re-raised at chat.py 903
            /\ pc' = "except"
            /\ excepcion' = << ERROR_GENERAR_RESPUESTA, ERROR_SIN_ATRIBUTO >>
            /\ UNCHANGED << resultado, llamadas_llm >>
       ELSE /\ llamadas_llm' = Append(llamadas_llm,
                    Llamada("respuesta", prompt_contexto, << >>,
                            Len(resultados_sql)))
            /\ \/ \E r \in RespuestasLLM_Texto :
                     /\ resultado' = Dict(Strip(r), Some(sql_query),
                                          Some(DatosContexto), "ausente", "ausente")
                     /\ pc' = "done"
                     /\ UNCHANGED excepcion
               \/ \* the LLM call raises
                  /\ pc' = "except"
                  /\ excepcion' = << ERROR_GENERAR_RESPUESTA, ERROR_LLM >>
                  /\ UNCHANGED resultado
    /\ UNCHANGED << ejecutor, aparte, almacen, transaccion, locales, lecturas_db, ejecuciones,
                    generaciones >>

\* ManejarExcepcion catching only the errors of a statement execution
ManejarExcepcionSoloSQL ==
    /\ pc = "except"
    /\ ejecuciones # << >>
    /\ resultado' = Dict(mensaje_error_de(pregunta), None, None, "ausente", "True")
    /\ pc' = "done"
    /\ UNCHANGED << ejecutor, aparte, almacen, transaccion, locales, llamadas_llm, lecturas_db,
                    ejecuciones, generaciones, excepcion >>

\* ManejarExcepcion appending str(e) to the message it returns
ManejarExcepcionConDetalle ==
    /\ pc = "except"
    /\ resultado' = Dict(mensaje_error_de(pregunta) \o excepcion, None, None,
                         "ausente", "True")
    /\ pc' = "done"
    /\ UNCHANGED << ejecutor, aparte, almacen, transaccion, locales, llamadas_llm, lecturas_db,
                    ejecuciones, generaciones, excepcion >>

\* ManejarExcepcion reporting the statement generated before the failure
ManejarExcepcionConSQL ==
    /\ pc = "except"
    /\ resultado' = Dict(mensaje_error_de(pregunta),
                         IF ejecuciones # << >> THEN Some(sql_query) ELSE None,
                         None, "ausente", "True")
    /\ pc' = "done"
    /\ UNCHANGED << ejecutor, aparte, almacen, transaccion, locales, llamadas_llm, lecturas_db,
                    ejecuciones, generaciones, excepcion >>

\* chat.py 1061-1085: the handler of every exception not handled before
ManejarExcepcion ==
    /\ pc = "except"
    /\ resultado' = Dict(mensaje_error_de(pregunta), None, None, "ausente", "True")
    /\ pc' = "done"
    /\ UNCHANGED << ejecutor, aparte, almacen, transaccion, locales, llamadas_llm, lecturas_db,
                    ejecuciones, generaciones, excepcion >>

Next ==
    \/ Validar
    \/ ObtenerPromptContexto
    \/ ObtenerTerminosExcluidos
    \/ ObtenerConsultaSql
    \/ EjecutarPrimaria
    \/ SintaxisGenerar
    \/ SintaxisEjecutar
    \/ VacioGenerar
    \/ VacioEjecutar
    \/ GenerarRespuestaFinal
    \/ ManejarExcepcion

Spec == Init /\ [][Next]_vars

(***************************************************************************)
(* The invocation while other requests change the stored prompt            *)
(* configuration and the user's excluded terms: main.py 241-290, 915-943   *)
(***************************************************************************)
PROMPT_ADMIN_2 == << "Eres un historiador olímpico." >>

\* the terms a user may send to POST /filters/excluded-terms
TerminosEntrada == { "Brasil" }

\* termino.termino.lower()
LowerTermino(t) == IF t = "Brasil" THEN "brasil" ELSE t

PreguntasConcurrentes ==
    { << "swimming", "medals", "1996" >>, << "hello" >> }

InitConcurrente ==
    /\ Init
    /\ client = TRUE
    /\ pregunta \in PreguntasConcurrentes

\* everything but the two stored collections
sin_almacen ==
    << ejecutor, aparte, client, pregunta, transaccion, pc, locales, resultado,
       llamadas_llm, lecturas_db, ejecuciones, generaciones, excepcion >>

\* main.py 241-268
agregar_termino_excluido ==
    /\ \E t \in TerminosEntrada :
          /\ \A i \in 1..Len(db_terminos) : db_terminos[i] # LowerTermino(t)
          /\ db_terminos' = Append(db_terminos, LowerTermino(t))
    /\ UNCHANGED << sin_almacen, db_prompt >>

\* main.py 270-290: the term is made inactive
eliminar_termino_excluido ==
    /\ \E i \in 1..Len(db_terminos) :
          db_terminos' = SubSeq(db_terminos, 1, i - 1)
                            \o SubSeq(db_terminos, i + 1, Len(db_terminos))
    /\ UNCHANGED << sin_almacen, db_prompt >>

\* main.py 915-943: the text or the activo flag of the configuration of the
\* context is changed
actualizar_configuracion_prompt ==
    /\ \E p \in { PROMPT_ADMIN, PROMPT_ADMIN_2 }, activo \in BOOLEAN :
          /\ db_prompt' = (IF activo THEN Some(p) ELSE None)
          /\ db_prompt' # db_prompt
    /\ UNCHANGED << sin_almacen, db_terminos >>

NextConcurrente ==
    \/ Next
    \/ agregar_termino_excluido
    \/ eliminar_termino_excluido
    \/ actualizar_configuracion_prompt

SpecConcurrente == InitConcurrente /\ [][NextConcurrente]_vars

(***************************************************************************)
(* The guard functions called again on the text of the invocation, at any  *)
(* moment of it and while other requests change the user's excluded terms: *)
(* chat.py 102-192                                                         *)
(***************************************************************************)
PreguntasGuarda ==
    { << "Show", "me", "the", "users", "table" >>,
      << "which", "tables" >>,
      << "what", "tables", "have", "women", "sports" >>,
      << "swimming", "medals", "1996" >> }

InitGuarda ==
    /\ Init
    /\ client = TRUE
    /\ db_prompt = None
    /\ pregunta \in PreguntasGuarda

\* what the two guard functions return for a text
Decision(sensible, estructura) ==
    [ es_sensible |-> sensible.es_sensible, mensaje |-> sensible.mensaje,
      es_estructura |-> estructura.es_estructura,
      respuesta_estructura |-> estructura.mensaje ]

\* everything but decisiones
sin_decisiones ==
    << ejecutor, generador, constructor, capas, almacen, transaccion, pc, locales,
       resultado, llamadas_llm, lecturas_db, ejecuciones, generaciones,
       excepcion >>

\* GuardaDeNuevo with a guard that also rejects while the user has active
\* excluded terms
GuardaDeNuevoLeeAlmacen ==
    /\ decisiones' = decisiones \cup
          { Decision(IF db_terminos # << >>
                     THEN [es_sensible |-> TRUE, mensaje |-> MSG_RECHAZO_GENERICO]
                     ELSE detectar_consulta_sensible(pregunta),
                     validar_respuesta_estructura_db(pregunta)) }
    /\ UNCHANGED sin_decisiones

\* chat.py 127-192: detectar_consulta_sensible(pregunta) and
\* validar_respuesta_estructura_db(pregunta) are called once more
GuardaDeNuevo ==
    /\ decisiones' = decisiones \cup
          { Decision(detectar_consulta_sensible(pregunta),
                     validar_respuesta_estructura_db(pregunta)) }
    /\ UNCHANGED sin_decisiones

NextGuarda ==
    \/ Next
    \/ agregar_termino_excluido
    \/ eliminar_termino_excluido
    \/ GuardaDeNuevo

SpecGuarda == InitGuarda /\ [][NextGuarda]_vars

(***************************************************************************)
(* One call of ejecutar_sql observed alone, step by step: chat.py 622-687  *)
(***************************************************************************)
\* the statements the generators can hand to ejecutar_sql
SentenciasSQL ==
    { LimpiarRespuestaSQL(r) : r \in RespuestasLLM_SQL }
    \cup { Strip(r) : r \in RespuestasLLM_SQL }
    \cup { << SQL_POR_DEFECTO >> }

\* a call ejecutar_sql(db, sql_query) on a session that may already have a
\* transaction in progress
InitEjecutor ==
    /\ client = TRUE
    /\ db_prompt = None
    /\ db_terminos = << >>
    /\ transaccion \in BOOLEAN
    /\ pregunta = << "hello" >>
    /\ pc = "inicio"
    /\ prompt_contexto = << >>
    /\ terminos_excluidos = << >>
    /\ sql_query = << >>
    /\ sql_query_fallback = << >>
    /\ resultados_sql = << >>
    /\ resultado = SinResultado
    /\ llamadas_llm = << >>
    /\ lecturas_db = << >>
    /\ ejecuciones = << >>
    /\ generaciones = << >>
    /\ excepcion = None
    /\ ej_pc = "try"
    /\ ej_sql \in SentenciasSQL
    /\ ej_error = None
    /\ ej_rollbacks = 0
    /\ ej_rollback_ok = FALSE
    /\ ej_salida = SinSalida
    /\ AparteInactivo

orquestador ==
    << aparte, almacen, locales, pc, resultado, llamadas_llm, lecturas_db, ejecuciones,
       generaciones, excepcion >>

\* chat.py 626-657: db.execute, fetchall and the conversion of the rows
EjecutarSqlTry ==
    /\ ej_pc = "try"
    /\ transaccion' = TRUE
    /\ \/ \E n \in NumerosDeFilas :
             /\ ej_salida' = Salida("ok", Filas(n), << >>)
             /\ ej_pc' = "return"
             /\ UNCHANGED ej_error
       \/ \E e \in ErroresDB :
             /\ ej_error' = e
             /\ ej_pc' = "rollback"
             /\ UNCHANGED ej_salida
    /\ UNCHANGED << orquestador, ej_sql, ej_rollbacks, ej_rollback_ok >>

\* EjecutarSqlRollback without the try around db.rollback(): its failure
\* leaves ejecutar_sql in place of the classified error
EjecutarSqlRollbackSinTry ==
    /\ ej_pc = "rollback"
    /\ ej_rollbacks' = ej_rollbacks + 1
    /\ \/ /\ ej_rollback_ok' = TRUE
          /\ transaccion' = FALSE
          /\ ej_pc' = "clasificar"
          /\ UNCHANGED ej_salida
       \/ /\ ej_rollback_ok' = FALSE
          /\ ej_salida' = Salida("InvalidRequestError", << >>, ERROR_ROLLBACK)
          /\ ej_pc' = "raise"
          /\ UNCHANGED transaccion
    /\ UNCHANGED << orquestador, ej_sql, ej_error >>

\* chat.py 661-665: db.rollback() inside its own try
EjecutarSqlRollback ==
    /\ ej_pc = "rollback"
    /\ ej_rollbacks' = ej_rollbacks + 1
    /\ \/ /\ ej_rollback_ok' = TRUE
          /\ transaccion' = FALSE
       \/ \* rollback_error is logged
          /\ ej_rollback_ok' = FALSE
          /\ UNCHANGED transaccion
    /\ ej_pc' = "clasificar"
    /\ UNCHANGED << orquestador, ej_sql, ej_error, ej_salida >>

\* chat.py 668-687: the classified exception is raised
EjecutarSqlClasificar ==
    /\ ej_pc = "clasificar"
    /\ ej_salida' = Salida(clasificar_error(ej_error), << >>,
                           mensaje_de_error(ej_error))
    /\ ej_pc' = "raise"
    /\ UNCHANGED << orquestador, transaccion, ej_sql, ej_error, ej_rollbacks,
                    ej_rollback_ok >>

NextEjecutor ==
    \/ EjecutarSqlTry
    \/ EjecutarSqlRollback
    \/ EjecutarSqlClasificar

SpecEjecutor == InitEjecutor /\ [][NextEjecutor]_vars

(***************************************************************************)
(* One call of a SQL generator observed alone, step by step:               *)
(* obtener_consulta_sql (chat.py 356-620) and                              *)
(* obtener_consulta_sql_simplificada (chat.py 751-805)                     *)
(***************************************************************************)
MaxBloques == 2

\* language tags, other than the lower-case sql, that may follow a fence
Etiquetas == { "SQL", "postgresql" }

\* prose of the LLM around its statement
TEXTO_EXTRA == "Here is the query:"

\* a fenced block as the LLM writes it: the opening fence with its tag, the
\* body on lines of its own, the closing fence
BloqueLLM(etiqueta, cuerpo) ==
    (IF etiqueta = "sql" THEN << FENCE_SQL >>
     ELSE IF etiqueta = "" THEN << FENCE >>
     ELSE << FENCE, etiqueta >>) \o << WS, cuerpo, WS, FENCE >>

BloquesLLM ==
    { BloqueLLM(e, c) : e \in {"", "sql"} \cup Etiquetas,
                        c \in { SQL_SELECT_MEDALLAS, SQL_DELETE_USUARIOS } }

\* what the LLM writes before, between and after blocks
Relleno == { << WS >>, << WS, TEXTO_EXTRA, WS >> }

RECURSIVE ConBloques(_)
\* the replies with n fenced blocks
ConBloques(n) ==
    IF n = 0 THEN Relleno
    ELSE { r \o b \o s : r \in ConBloques(n - 1), b \in BloquesLLM, s \in Relleno }

\* message.content[0].text of the replies of the LLM to a SQL prompt
RespuestasGenerador ==
    { << WS, SQL_SELECT_MEDALLAS, WS >> }
    \cup UNION { ConBloques(n) : n \in 0..MaxBloques }

Generadores == { "obtener_consulta_sql", "obtener_consulta_sql_simplificada" }

\* the invocation of procesar_consulta_chat is not running
OrquestadorInactivo ==
    /\ db_prompt = None
    /\ db_terminos = << >>
    /\ transaccion = FALSE
    /\ pregunta = << "hello" >>
    /\ pc = "inicio"
    /\ prompt_contexto = << >>
    /\ terminos_excluidos = << >>
    /\ sql_query = << >>
    /\ sql_query_fallback = << >>
    /\ resultados_sql = << >>
    /\ resultado = SinResultado
    /\ llamadas_llm = << >>
    /\ lecturas_db = << >>
    /\ ejecuciones = << >>
    /\ generaciones = << >>
    /\ excepcion = None

EjecutorInactivo ==
    /\ ej_pc = "inactivo"
    /\ ej_sql = << >>
    /\ ej_error = None
    /\ ej_rollbacks = 0
    /\ ej_rollback_ok = FALSE
    /\ ej_salida = SinSalida

InitGenerador ==
    /\ OrquestadorInactivo
    /\ EjecutorInactivo
    /\ client \in BOOLEAN
    /\ gen_pc = "cliente"
    /\ gen_fn \in Generadores
    /\ gen_respuesta = << >>
    /\ gen_sql = << >>
    /\ hist_pc = "inactivo"
    /\ historial_conversacion = << >>
    /\ contexto_sql = << >>
    /\ contexto_respuesta = << >>
    /\ decisiones = {}
    /\ CapasInactivas

sin_generador ==
    << ejecutor, constructor, decisiones, capas, almacen, transaccion, pc, locales,
       resultado, llamadas_llm, lecturas_db, ejecuciones, generaciones,
       excepcion >>

\* chat.py 365-366 and 759-760: the check of the module-level client
GenVerificarCliente ==
    /\ gen_pc = "cliente"
    /\ gen_pc' = (IF client THEN "llm" ELSE "raise")
    /\ UNCHANGED << sin_generador, gen_fn, gen_respuesta, gen_sql >>

\* chat.py 583-597 and 788-798: client.messages.create answers or raises;
\* the primary generator re-raises (607-620), the simplified one returns the
\* default query (801-805)
GenLlamarLLM ==
    /\ gen_pc = "llm"
    /\ \/ \E r \in RespuestasGenerador :
             /\ gen_respuesta' = r
             /\ gen_pc' = "limpiar"
             /\ UNCHANGED gen_sql
       \/ IF gen_fn = "obtener_consulta_sql"
          THEN /\ gen_pc' = "raise"
               /\ UNCHANGED << gen_respuesta, gen_sql >>
          ELSE /\ gen_sql' = << SQL_POR_DEFECTO >>
               /\ gen_pc' = "return"
               /\ UNCHANGED gen_respuesta
    /\ UNCHANGED << sin_generador, gen_fn >>

\* chat.py 596-605 and 797-799: what is returned for the reply
GenLimpiar ==
    /\ gen_pc = "limpiar"
    /\ gen_sql' = (IF gen_fn = "obtener_consulta_sql"
                   THEN LimpiarRespuestaSQL(gen_respuesta)
                   ELSE Strip(gen_respuesta))
    /\ gen_pc' = "return"
    /\ UNCHANGED << sin_generador, gen_fn, gen_respuesta >>

NextGenerador ==
    \/ GenVerificarCliente
    \/ GenLlamarLLM
    \/ GenLimpiar

SpecGenerador == InitGenerador /\ [][NextGenerador]_vars

(***************************************************************************)
(* The conversation context of the two prompts: obtener_consulta_sql       *)
(* (chat.py 368-383) and generar_respuesta_final (chat.py 814-827).  A     *)
(* text of the history is known by its identity and its length in          *)
(* characters; the context is the sequence of its lines.                   *)
(***************************************************************************)
MaxHistorial == 2

\* the number of characters of an assistant message that the context keeps
LIMITE_CONTENIDO == 800

Texto(id, n) == [ id |-> id, len |-> n ]

SinTexto == Texto("", 0)

\* s[:n]
Prefijo(s, n) == Texto(s.id, Min(s.len, n))

\* a line of the context: its fixed words, the text it quotes and whether
\* three dots follow the text
Linea(etiqueta, texto, elipsis) ==
    [ etiqueta |-> etiqueta, texto |-> texto, elipsis |-> elipsis ]

CABECERA == Linea("CONTEXTO DE CONVERSACIÓN PREVIA:", SinTexto, FALSE)
FIN_CONTEXTO == Linea("FIN DEL CONTEXTO PREVIO", SinTexto, FALSE)
USUARIO_PREGUNTO == "Usuario preguntó: "
ASISTENTE_RESPONDIO == "Asistente respondió: "
SQL_EJECUTADO == "SQL ejecutado: "

\* an element of historial_conversacion (conversations.py 190-195)
Mensaje(rol, contenido, consulta_sql) ==
    [ rol |-> rol, contenido |-> contenido, consulta_sql |-> consulta_sql ]

LongitudesUsuario == { 1, LIMITE_CONTENIDO + 1 }
LongitudesAsistente ==
    { LIMITE_CONTENIDO - 1, LIMITE_CONTENIDO, LIMITE_CONTENIDO + 1 }

\* the statement stored with an assistant message
TextoSQL == Texto(SQL_SELECT_MEDALLAS, 124)

Mensajes ==
    { Mensaje("user", Texto("pregunta", n), None) : n \in LongitudesUsuario }
    \cup
    { Mensaje("assistant", Texto("respuesta", n), s) :
          n \in LongitudesAsistente, s \in { None, Some(TextoSQL) } }

\* the values of the argument historial_conversacion: None or a list
Historiales ==
    { None } \cup { Some(h) : h \in SeqsHasta(Mensajes, MaxHistorial) }

\* linea_asistente keeping 200 characters
linea_asistente_200(mensaje) ==
    LET contenido_assistant == mensaje.contenido IN
    IF contenido_assistant.len > 200
    THEN Linea(ASISTENTE_RESPONDIO, Prefijo(contenido_assistant, 200), TRUE)
    ELSE Linea(ASISTENTE_RESPONDIO, contenido_assistant, FALSE)

\* chat.py 376-380 and 822-826: the line of an assistant message
linea_asistente(mensaje) ==
    LET contenido_assistant == mensaje.contenido IN
    IF contenido_assistant.len > LIMITE_CONTENIDO
    THEN Linea(ASISTENTE_RESPONDIO,
               Prefijo(contenido_assistant, LIMITE_CONTENIDO), TRUE)
    ELSE Linea(ASISTENTE_RESPONDIO, contenido_assistant, FALSE)

RECURSIVE lineas_sql(_)
\* chat.py 372-382: the loop of obtener_consulta_sql over the messages
lineas_sql(h) ==
    IF h = << >> THEN << >>
    ELSE LET mensaje == Head(h) IN
         (IF mensaje.rol = "user"
          THEN << Linea(USUARIO_PREGUNTO, mensaje.contenido, FALSE) >>
          ELSE IF mensaje.rol = "assistant"
          THEN << linea_asistente(mensaje) >>
               \o (IF mensaje.consulta_sql # None
                   THEN << Linea(SQL_EJECUTADO, mensaje.consulta_sql[1], FALSE) >>
                   ELSE << >>)
          ELSE << >>)
         \o lineas_sql(Tail(h))

RECURSIVE lineas_respuesta(_)
\* chat.py 818-826: the loop of generar_respuesta_final over the messages
lineas_respuesta(h) ==
    IF h = << >> THEN << >>
    ELSE LET mensaje == Head(h) IN
         (IF mensaje.rol = "user"
          THEN << Linea(USUARIO_PREGUNTO, mensaje.contenido, FALSE) >>
          ELSE IF mensaje.rol = "assistant"
          THEN << linea_asistente(mensaje) >>
          ELSE << >>)
         \o lineas_respuesta(Tail(h))

\* chat.py 369-383: contexto_conversacion of obtener_consulta_sql
contexto_conversacion_sql(historial) ==
    IF historial # None /\ Len(historial[1]) > 0
    THEN << CABECERA >> \o lineas_sql(historial[1]) \o << FIN_CONTEXTO >>
    ELSE << >>

\* contexto_conversacion_respuesta with the loop of obtener_consulta_sql
contexto_conversacion_respuesta_con_sql(historial) ==
    IF historial # None /\ Len(historial[1]) > 0
    THEN << CABECERA >> \o lineas_sql(historial[1]) \o << FIN_CONTEXTO >>
    ELSE << >>

\* chat.py 815-827: contexto_conversacion of generar_respuesta_final
contexto_conversacion_respuesta(historial) ==
    IF historial # None /\ Len(historial[1]) > 0
    THEN << CABECERA >> \o lineas_respuesta(historial[1]) \o << FIN_CONTEXTO >>
    ELSE << >>

InitHistorial ==
    /\ OrquestadorInactivo
    /\ EjecutorInactivo
    /\ client = TRUE
    /\ gen_pc = "inactivo"
    /\ gen_fn = ""
    /\ gen_respuesta = << >>
    /\ gen_sql = << >>
    /\ hist_pc = "obtener_consulta_sql"
    /\ historial_conversacion \in Historiales
    /\ contexto_sql = << >>
    /\ contexto_respuesta = << >>
    /\ decisiones = {}
    /\ CapasInactivas

sin_constructor ==
    << ejecutor, generador, decisiones, capas, almacen, transaccion, pc, locales,
       resultado, llamadas_llm, lecturas_db, ejecuciones, generaciones,
       excepcion >>

\* chat.py 368-383: the SQL prompt is built first (chat.py 962)
ConstruirContextoSQL ==
    /\ hist_pc = "obtener_consulta_sql"
    /\ contexto_sql' = contexto_conversacion_sql(historial_conversacion)
    /\ hist_pc' = "generar_respuesta_final"
    /\ UNCHANGED << sin_constructor, historial_conversacion, contexto_respuesta >>

\* chat.py 814-827: the answer prompt is built from the same argument
\* (chat.py 1042)
ConstruirContextoRespuesta ==
    /\ hist_pc = "generar_respuesta_final"
    /\ contexto_respuesta' = contexto_conversacion_respuesta(historial_conversacion)
    /\ hist_pc' = "fin"
    /\ UNCHANGED << sin_constructor, historial_conversacion, contexto_sql >>

NextHistorial ==
    \/ ConstruirContextoSQL
    \/ ConstruirContextoRespuesta

SpecHistorial == InitHistorial /\ [][NextHistorial]_vars

(***************************************************************************)
(* The table terminos_excluidos, the requests that change it (main.py      *)
(* 241-290 and 779-880) and its read by an invocation (chat.py 251-271,    *)
(* 385-391 and 1049)                                                       *)
(***************************************************************************)
MaxTerminos == 3

\* the ids of two users
UsuariosTerminos == { 1, 2 }

\* the user whose invocation reads the table
UsuarioInvocacion == 1

\* the texts a user may send as TerminoExcluidoCreate.termino
TextosTermino == { "Brasil", "china" }

\* models.py 83-96: a new row is active
TerminoExcluido(id, id_usuario, termino) ==
    [ id |-> id, id_usuario |-> id_usuario, termino |-> termino,
      activo |-> TRUE ]

\* the row with another value of activo
ConActivo(r, activo) == [ r EXCEPT !.activo = activo ]

DETALLE_YA_EXCLUIDO == "El término ya está en la lista de excluidos"
DETALLE_TERMINO_NO_ENCONTRADO == "Término no encontrado"
DETALLE_YA_ACTIVO == "El término ya está activo"

\* the response to a request: the current user (0 for an administrator), the
\* HTTP status and the detail of the HTTPException
RespuestaHTTP(usuario, estado, detalle) ==
    [ usuario |-> usuario, estado |-> estado, detalle |-> detalle ]

\* the orders in which a query without ORDER BY may return the rows S
Ordenes(S) ==
    { s \in [1..Cardinality(S) -> S] :
         \A i, j \in 1..Cardinality(S) : i # j => s[i] # s[j] }

\* obtener_terminos_excluidos reading the active terms of every user
obtener_terminos_excluidos_sin_usuario(tabla, usuario) ==
    { [ i \in 1..Len(s) |-> s[i].termino ] :
         s \in Ordenes({ r \in tabla : r.activo }) }

\* chat.py 251-271: the lists the function may return
obtener_terminos_excluidos(tabla, usuario) ==
    { [ i \in 1..Len(s) |-> s[i].termino ] :
         s \in Ordenes({ r \in tabla : r.id_usuario = usuario /\ r.activo }) }

COMILLA == "'"
COMA == ", "
TITULO_TERMINOS_EXCLUIDOS == "TÉRMINOS EXCLUIDOS POR EL USUARIO:"
INTRO_TERMINOS_EXCLUIDOS ==
    "El usuario ha especificado que NO desea ver resultados que contengan los siguientes términos: "
INSTRUCCIONES_FILTRADO == "INSTRUCCIONES CRÍTICAS PARA FILTRADO INTELIGENTE: ..."

\* chat.py 388: ", ".join([f"'{termino}'" for termino in terminos_excluidos])
RECURSIVE terminos_formateados(_)
terminos_formateados(terminos) ==
    IF Len(terminos) = 0 THEN << >>
    ELSE IF Len(terminos) = 1 THEN << COMILLA, terminos[1], COMILLA >>
    ELSE << COMILLA, terminos[1], COMILLA, COMA >>
            \o terminos_formateados(Tail(terminos))

\* chat.py 385-391 and the rest of the block
seccion_terminos_excluidos(terminos) ==
    IF Len(terminos) > 0
    THEN << TITULO_TERMINOS_EXCLUIDOS, INTRO_TERMINOS_EXCLUIDOS >>
            \o terminos_formateados(terminos) \o << INSTRUCCIONES_FILTRADO >>
    ELSE << >>

\* what an invocation of the user has after the read: chat.py 948, 385-391
\* and 1049
LecturaDeTerminos(usuario, terminos) ==
    [ usuario |-> usuario,
      terminos_excluidos |-> terminos,
      seccion |-> seccion_terminos_excluidos(terminos),
      terminos_excluidos_aplicados |-> Len(terminos) ]

InitTerminos ==
    /\ OrquestadorInactivo
    /\ EjecutorInactivo
    /\ client = TRUE
    /\ gen_pc = "inactivo"
    /\ gen_fn = ""
    /\ gen_respuesta = << >>
    /\ gen_sql = << >>
    /\ hist_pc = "inactivo"
    /\ historial_conversacion = << >>
    /\ contexto_sql = << >>
    /\ contexto_respuesta = << >>
    /\ decisiones = {}
    /\ CapasInactivas

sin_terminos ==
    << ejecutor, generador, constructor, decisiones, mensajes_capa,
       usuarios_tabla, almacen, transaccion, pc,
       locales, resultado, llamadas_llm, lecturas_db, ejecuciones,
       generaciones, excepcion >>

\* main.py 241-268: POST /filters/excluded-terms
agregar_termino ==
    /\ \E u \in UsuariosTerminos, t \in TextosTermino :
          IF \E r \in te_tabla : /\ r.id_usuario = u
                                 /\ r.termino = LowerTermino(t)
                                 /\ r.activo
          THEN /\ te_respuesta' =
                     << RespuestaHTTP(u, 400, DETALLE_YA_EXCLUIDO) >>
               /\ UNCHANGED << te_tabla, te_siguiente >>
          ELSE /\ te_siguiente <= MaxTerminos
               /\ te_tabla' = te_tabla \cup
                     { TerminoExcluido(te_siguiente, u, LowerTermino(t)) }
               /\ te_siguiente' = te_siguiente + 1
               /\ te_respuesta' = << RespuestaHTTP(u, 200, "") >>
    /\ UNCHANGED << sin_terminos, te_lectura >>

\* main.py 270-290: DELETE /filters/excluded-terms/{termino_id}
eliminar_termino ==
    /\ \E u \in UsuariosTerminos, termino_id \in 1..MaxTerminos :
          LET filas == { r \in te_tabla :
                            r.id = termino_id /\ r.id_usuario = u }
          IN IF filas = {}
             THEN /\ te_respuesta' =
                        << RespuestaHTTP(u, 404,
                                         DETALLE_TERMINO_NO_ENCONTRADO) >>
                  /\ UNCHANGED te_tabla
             ELSE /\ te_tabla' = (te_tabla \ filas)
                                    \cup { ConActivo(r, FALSE) : r \in filas }
                  /\ te_respuesta' = << RespuestaHTTP(u, 200, "") >>
    /\ UNCHANGED << sin_terminos, te_siguiente, te_lectura >>

\* main.py 779-808: PATCH /admin/excluded-terms/{term_id}/deactivate
desactivar_termino_excluido_admin ==
    /\ \E term_id \in 1..MaxTerminos :
          LET filas == { r \in te_tabla : r.id = term_id }
          IN IF filas = {}
             THEN /\ te_respuesta' =
                        << RespuestaHTTP(0, 404,
                                         DETALLE_TERMINO_NO_ENCONTRADO) >>
                  /\ UNCHANGED te_tabla
             ELSE /\ te_tabla' = (te_tabla \ filas)
                                    \cup { ConActivo(r, FALSE) : r \in filas }
                  /\ te_respuesta' =
                        << RespuestaHTTP(0, 200, "") >>
    /\ UNCHANGED << sin_terminos, te_siguiente, te_lectura >>

\* main.py 810-845: PATCH /admin/excluded-terms/{term_id}/activate
activar_termino_excluido_admin ==
    /\ \E term_id \in 1..MaxTerminos :
          LET filas == { r \in te_tabla : r.id = term_id }
          IN IF filas = {}
             THEN /\ te_respuesta' =
                        << RespuestaHTTP(0, 404,
                                         DETALLE_TERMINO_NO_ENCONTRADO) >>
                  /\ UNCHANGED te_tabla
             ELSE IF \E r \in filas : r.activo
             THEN /\ te_respuesta' =
                        << RespuestaHTTP(0, 400,
                                         DETALLE_YA_ACTIVO) >>
                  /\ UNCHANGED te_tabla
             ELSE /\ te_tabla' = (te_tabla \ filas)
                                    \cup { ConActivo(r, TRUE) : r \in filas }
                  /\ te_respuesta' =
                        << RespuestaHTTP(0, 200, "") >>
    /\ UNCHANGED << sin_terminos, te_siguiente, te_lectura >>

\* main.py 847-880: DELETE /admin/excluded-terms/{term_id}
eliminar_termino_excluido_admin ==
    /\ \E term_id \in 1..MaxTerminos :
          LET filas == { r \in te_tabla : r.id = term_id }
          IN IF filas = {}
             THEN /\ te_respuesta' =
                        << RespuestaHTTP(0, 404,
                                         DETALLE_TERMINO_NO_ENCONTRADO) >>
                  /\ UNCHANGED te_tabla
             ELSE /\ te_tabla' = te_tabla \ filas
                  /\ te_respuesta' =
                        << RespuestaHTTP(0, 200, "") >>
    /\ UNCHANGED << sin_terminos, te_siguiente, te_lectura >>

\* chat.py 948, 385-391 and 1049: an invocation of the user reads the terms,
\* builds the block of its SQL prompt and counts them
LeerTerminos ==
    /\ \E ts \in obtener_terminos_excluidos(te_tabla, UsuarioInvocacion) :
          te_lectura' = << LecturaDeTerminos(UsuarioInvocacion, ts) >>
    /\ UNCHANGED << sin_terminos, te_tabla, te_siguiente, te_respuesta >>

NextTerminos ==
    \/ agregar_termino
    \/ eliminar_termino
    \/ desactivar_termino_excluido_admin
    \/ activar_termino_excluido_admin
    \/ eliminar_termino_excluido_admin
    \/ LeerTerminos

SpecTerminos == InitTerminos /\ [][NextTerminos]_vars

(***************************************************************************)
(* procesar_mensaje_chat around the invocation: conversations.py 14-33,    *)
(* 143-261                                                                 *)
(***************************************************************************)
MaxPrevios == 11

\* conversations.py 176: the default of limite
LIMITE_HISTORIAL == 10

DETALLE_CONVERSACION_NO_ENCONTRADA == "Conversación no encontrada"

\* models.py 27-43
Conversacion(id, id_usuario, activa) ==
    [ id |-> id, id_usuario |-> id_usuario, activa |-> activa ]

\* models.py 45-58: the id and the timestamp of a row are given in the order
\* of the writes
FilaMensaje(n, id_conversacion, rol, contenido, consulta_sql) ==
    [ id |-> n, id_conversacion |-> id_conversacion, rol |-> rol,
      contenido |-> contenido, consulta_sql |-> consulta_sql, timestamp |-> n ]

\* the conversations stored before the request: one of the user, an inactive
\* one of the user and one of another user
ConversacionesPrevias ==
    { Conversacion(1, UsuarioInvocacion, TRUE),
      Conversacion(2, UsuarioInvocacion, FALSE),
      Conversacion(3, 2, TRUE) }

\* the values of chat_request.id_conversacion
PeticionesConversacion == { None } \cup { Some(n) : n \in 0..4 }

\* the k messages of conversation 1 stored before the request, questions and
\* answers in turn
MensajesPrevios(k) ==
    { FilaMensaje(i, 1, IF i % 2 = 1 THEN "user" ELSE "assistant",
                  << "previo" >>,
                  IF i % 2 = 1 THEN None ELSE Some(<< SQL_SELECT_MEDALLAS >>)) :
         i \in 1..k }

\* a message of the conversation of the other user, written after them
MensajeAjeno(k) == FilaMensaje(k + 1, 3, "user", << "ajeno" >>, None)

PreguntasMensajes ==
    { << "Show", "me", "the", "users", "table" >>,
      << "which", "tables" >>,
      << "swimming", "medals", "1996" >> }

\* conversations.py 176-188: the rows of the conversation by descending
\* timestamp
RECURSIVE PorTimestampDesc(_)
PorTimestampDesc(S) ==
    IF S = {} THEN << >>
    ELSE LET m == CHOOSE r \in S : \A o \in S : o.timestamp <= r.timestamp
         IN << m >> \o PorTimestampDesc(S \ { m })

\* mensajes[::-1]
RECURSIVE Invertir(_)
Invertir(s) ==
    IF s = << >> THEN << >> ELSE Append(Invertir(Tail(s)), Head(s))

\* conversations.py 190-195
EntradaHistorial(m) ==
    [ rol |-> m.rol, contenido |-> m.contenido, timestamp |-> m.timestamp,
      consulta_sql |-> m.consulta_sql ]

\* obtener_historial_conversacion without the reversal
obtener_historial_conversacion_sin_invertir(tabla, conversacion_id, limite) ==
    LET mensajes ==
           PorTimestampDesc({ m \in tabla : m.id_conversacion = conversacion_id })
        recientes == SubSeq(mensajes, 1, Min(limite, Len(mensajes)))
    IN [ i \in 1..Len(recientes) |-> EntradaHistorial(recientes[i]) ]

\* conversations.py 176-197
obtener_historial_conversacion(tabla, conversacion_id, limite) ==
    LET mensajes ==
           PorTimestampDesc({ m \in tabla : m.id_conversacion = conversacion_id })
        recientes == Invertir(SubSeq(mensajes, 1, Min(limite, Len(mensajes))))
    IN [ i \in 1..Len(recientes) |-> EntradaHistorial(recientes[i]) ]

\* agregar_mensaje adding the row to the session without commit
agregar_mensaje_sin_commit(mensajes, sesion, fila) ==
    [ mensajes |-> mensajes, sesion |-> sesion \cup { fila } ]

\* conversations.py 157-172: db.add and db.commit; the table and the session
\* after them
agregar_mensaje(mensajes, sesion, fila) ==
    [ mensajes |-> mensajes \cup sesion \cup { fila }, sesion |-> {} ]

\* conversations.py 147-156: the check of agregar_mensaje
ConversacionActiva(conversacion_id) ==
    \E c \in ms_conversaciones : c.id = conversacion_id /\ c.activa

\* chat.py 659-665: a call of ejecutar_sql of the invocation called
\* db.rollback()
HuboRollback == \E k \in 1..Len(ejecuciones) : ejecuciones[k].tipo # "ok"

\* the rows added and not committed that the session still has after the
\* invocation
SesionTrasInvocacion == IF HuboRollback THEN {} ELSE ms_sesion

\* the invocation caught the exception of an ORM read (chat.py 1061), or of a
\* rollback (chat.py 664), and left the session as the failure left it
SesionFallida ==
    \/ excepcion = << ERROR_ALMACEN >>
    \/ /\ transaccion
       /\ ejecuciones # << >>
       /\ ejecuciones[Len(ejecuciones)].tipo # "ok"

\* conversations.py 255-261
ChatResponse(respuesta, consulta_sql, id_conversacion, id_mensaje, datos_contexto) ==
    [ tipo |-> "ChatResponse", respuesta |-> respuesta,
      consulta_sql |-> consulta_sql, id_conversacion |-> id_conversacion,
      id_mensaje |-> id_mensaje, datos_contexto |-> datos_contexto,
      estado |-> 200, detalle |-> "" ]

\* an exception raised by procesar_mensaje_chat
Excepcion(tipo, estado, detalle) ==
    [ tipo |-> tipo, respuesta |-> << >>, consulta_sql |-> None,
      id_conversacion |-> 0, id_mensaje |-> 0, datos_contexto |-> None,
      estado |-> estado, detalle |-> detalle ]

InitMensajes ==
    /\ client \in BOOLEAN
    /\ db_prompt = None
    /\ db_terminos = << >>
    /\ transaccion = FALSE
    /\ pregunta \in PreguntasMensajes
    /\ pc = "inicio"
    /\ prompt_contexto = << >>
    /\ terminos_excluidos = << >>
    /\ sql_query = << >>
    /\ sql_query_fallback = << >>
    /\ resultados_sql = << >>
    /\ resultado = SinResultado
    /\ llamadas_llm = << >>
    /\ lecturas_db = << >>
    /\ ejecuciones = << >>
    /\ generaciones = << >>
    /\ excepcion = None
    /\ EjecutorInactivo
    /\ gen_pc = "inactivo"
    /\ gen_fn = ""
    /\ gen_respuesta = << >>
    /\ gen_sql = << >>
    /\ hist_pc = "inactivo"
    /\ historial_conversacion = << >>
    /\ contexto_sql = << >>
    /\ contexto_respuesta = << >>
    /\ decisiones = {}
    /\ TerminosInactivos
    /\ UsuariosInactivos
    /\ ms_pc = "inicio"
    /\ ms_peticion \in PeticionesConversacion
    /\ ms_conversacion_id = 0
    /\ ms_conversaciones = ConversacionesPrevias
    /\ \E k \in 0..MaxPrevios :
          /\ ms_mensajes = MensajesPrevios(k) \cup { MensajeAjeno(k) }
          /\ ms_reloj = k + 1
    /\ ms_sesion = {}
    /\ ms_historial = << >>
    /\ ms_salida = << >>

sin_mensajes ==
    << ejecutor, generador, constructor, decisiones, terminos_tabla,
       usuarios_tabla, almacen,
       transaccion, pc, locales, resultado, llamadas_llm, lecturas_db,
       ejecuciones, generaciones, excepcion >>

\* ResolverConversacion accepting a conversation of any user
ResolverConversacionSinDueno ==
    /\ ms_pc = "inicio"
    /\ IF ms_peticion = None \/ ms_peticion = Some(0)
       THEN LET id == Cardinality(ms_conversaciones) + 1
            IN /\ ms_conversaciones' = ms_conversaciones
                     \cup { Conversacion(id, UsuarioInvocacion, TRUE) }
               /\ ms_conversacion_id' = id
               /\ ms_pc' = "guardar_usuario"
               /\ UNCHANGED ms_salida
       ELSE IF \E c \in ms_conversaciones : c.id = ms_peticion[1] /\ c.activa
       THEN /\ ms_conversacion_id' = ms_peticion[1]
            /\ ms_pc' = "guardar_usuario"
            /\ UNCHANGED << ms_conversaciones, ms_salida >>
       ELSE /\ ms_salida' =
                  << Excepcion("HTTPException", 404,
                               DETALLE_CONVERSACION_NO_ENCONTRADA) >>
            /\ ms_pc' = "fin"
            /\ UNCHANGED << ms_conversaciones, ms_conversacion_id >>
    /\ UNCHANGED << sin_mensajes, ms_peticion, ms_mensajes, ms_sesion, ms_reloj,
                    ms_historial >>

\* conversations.py 203-224 and 14-33: the conversation of the request
ResolverConversacion ==
    /\ ms_pc = "inicio"
    /\ IF ms_peticion = None \/ ms_peticion = Some(0)
       THEN \* not conversacion_id: crear_conversacion
            LET id == Cardinality(ms_conversaciones) + 1
            IN /\ ms_conversaciones' = ms_conversaciones
                     \cup { Conversacion(id, UsuarioInvocacion, TRUE) }
               /\ ms_conversacion_id' = id
               /\ ms_pc' = "guardar_usuario"
               /\ UNCHANGED ms_salida
       ELSE IF \E c \in ms_conversaciones : /\ c.id = ms_peticion[1]
                                            /\ c.id_usuario = UsuarioInvocacion
                                            /\ c.activa
       THEN /\ ms_conversacion_id' = ms_peticion[1]
            /\ ms_pc' = "guardar_usuario"
            /\ UNCHANGED << ms_conversaciones, ms_salida >>
       ELSE /\ ms_salida' =
                  << Excepcion("HTTPException", 404,
                               DETALLE_CONVERSACION_NO_ENCONTRADA) >>
            /\ ms_pc' = "fin"
            /\ UNCHANGED << ms_conversaciones, ms_conversacion_id >>
    /\ UNCHANGED << sin_mensajes, ms_peticion, ms_mensajes, ms_sesion, ms_reloj,
                    ms_historial >>

\* conversations.py 226-235 and 143-174: the message of the user is saved
GuardarMensajeUsuario ==
    /\ ms_pc = "guardar_usuario"
    /\ IF ConversacionActiva(ms_conversacion_id)
       THEN LET r == agregar_mensaje(ms_mensajes, ms_sesion,
                        FilaMensaje(ms_reloj + 1, ms_conversacion_id, "user",
                                    pregunta, None))
            IN /\ ms_mensajes' = r.mensajes
               /\ ms_sesion' = r.sesion
               /\ ms_reloj' = ms_reloj + 1
               /\ ms_pc' = "historial"
               /\ UNCHANGED ms_salida
       ELSE /\ ms_salida' =
                  << Excepcion("HTTPException", 404,
                               DETALLE_CONVERSACION_NO_ENCONTRADA) >>
            /\ ms_pc' = "fin"
            /\ UNCHANGED << ms_mensajes, ms_sesion, ms_reloj >>
    /\ UNCHANGED << sin_mensajes, ms_peticion, ms_conversacion_id,
                    ms_conversaciones, ms_historial >>

\* conversations.py 237-238: the history is read
ObtenerHistorial ==
    /\ ms_pc = "historial"
    /\ ms_historial' = obtener_historial_conversacion(
                           ms_mensajes \cup ms_sesion, ms_conversacion_id,
                           LIMITE_HISTORIAL)
    /\ ms_pc' = "invocacion"
    /\ UNCHANGED << sin_mensajes, ms_peticion, ms_conversacion_id,
                    ms_conversaciones, ms_mensajes, ms_sesion, ms_reloj,
                    ms_salida >>

\* conversations.py 241: a step of procesar_consulta_chat
Invocacion ==
    /\ ms_pc = "invocacion"
    /\ Next

\* conversations.py 243-261: the message of the assistant is saved and the
\* response is returned; agregar_mensaje raises or not when the invocation
\* left the session failed
GuardarMensajeAsistente ==
    /\ ms_pc = "invocacion"
    /\ pc = "done"
    /\ ms_pc' = "fin"
    /\ \/ /\ ConversacionActiva(ms_conversacion_id)
          /\ LET r == agregar_mensaje(ms_mensajes, SesionTrasInvocacion,
                         FilaMensaje(ms_reloj + 1, ms_conversacion_id,
                                     "assistant", resultado.respuesta,
                                     resultado.consulta_sql))
             IN /\ ms_mensajes' = r.mensajes
                /\ ms_sesion' = r.sesion
                /\ ms_reloj' = ms_reloj + 1
                /\ ms_salida' =
                      << ChatResponse(resultado.respuesta,
                                      resultado.consulta_sql,
                                      ms_conversacion_id, ms_reloj + 1,
                                      resultado.datos_contexto) >>
       \/ /\ SesionFallida
          /\ ms_salida' = << Excepcion("Exception", 500, ERROR_ALMACEN) >>
          /\ UNCHANGED << ms_mensajes, ms_sesion, ms_reloj >>
    /\ UNCHANGED << sin_mensajes, ms_peticion, ms_conversacion_id,
                    ms_conversaciones, ms_historial >>

NextMensajes ==
    \/ ResolverConversacion
    \/ GuardarMensajeUsuario
    \/ ObtenerHistorial
    \/ Invocacion
    \/ GuardarMensajeAsistente

SpecMensajes == InitMensajes /\ [][NextMensajes]_vars

(***************************************************************************)
(* The table usuarios and the user-management requests of administrators:  *)
(* main.py 319-528, auth.py 100-139                                        *)
(***************************************************************************)
MaxUsuarios == 3

\* models.py 8-24: the fields of a row that the requests read or change
Usuario(id, rol, activo) == [ id |-> id, rol |-> rol, activo |-> activo ]

\* the users registered before the requests: two administrators, and users
UsuariosPrevios ==
    { Usuario(1, "admin", TRUE), Usuario(2, "admin", TRUE) }
       \cup { Usuario(n, "user", TRUE) : n \in 3..MaxUsuarios }

\* schemas.py 40-44: the fields rol and activo of UsuarioUpdate; username
\* and email are not sent
ActualizacionesUsuario ==
    [ rol : { None, Some("user"), Some("admin") },
      activo : { None, Some(TRUE), Some(FALSE) } ]

\* auth.py 100-139: the users that pass get_current_admin_user
AdministradoresActuales == { u \in us_tabla : u.activo /\ u.rol = "admin" }


\* the table with the row of the user replaced
ConUsuario(tabla, usuario, nuevo) == (tabla \ { usuario }) \cup { nuevo }

\* main.py 375-379: the fields of the update that are not None are assigned
Actualizado(usuario, user_update) ==
    Usuario(usuario.id,
            IF user_update.rol # None THEN user_update.rol[1] ELSE usuario.rol,
            IF user_update.activo # None THEN user_update.activo[1]
                                         ELSE usuario.activo)

InitUsuarios ==
    /\ OrquestadorInactivo
    /\ EjecutorInactivo
    /\ client = TRUE
    /\ gen_pc = "inactivo"
    /\ gen_fn = ""
    /\ gen_respuesta = << >>
    /\ gen_sql = << >>
    /\ hist_pc = "inactivo"
    /\ historial_conversacion = << >>
    /\ contexto_sql = << >>
    /\ contexto_respuesta = << >>
    /\ decisiones = {}
    /\ TerminosInactivos
    /\ MensajesInactivos
    /\ us_tabla = UsuariosPrevios
    /\ us_respuesta = << >>

sin_usuarios ==
    << ejecutor, generador, constructor, decisiones, terminos_tabla,
       mensajes_capa, almacen, transaccion, pc, locales, resultado,
       llamadas_llm, lecturas_db, ejecuciones, generaciones, excepcion >>

\* main.py 319-383: PUT /admin/users/{user_id}
actualizar_usuario_admin ==
    /\ \E current_admin \in AdministradoresActuales,
          user_id \in 1..MaxUsuarios,
          user_update \in ActualizacionesUsuario :
          LET filas == { u \in us_tabla : u.id = user_id }
          IN IF filas = {}
             THEN /\ us_respuesta' =
                        << RespuestaHTTP(current_admin.id, 404,
                                         "Usuario no encontrado") >>
                  /\ UNCHANGED us_tabla
             ELSE LET usuario == CHOOSE u \in filas : TRUE
                  IN IF usuario.rol = "admin" /\ usuario.id # current_admin.id
                     THEN /\ us_respuesta' =
                                << RespuestaHTTP(current_admin.id, 403,
                                         "No tienes permisos para editar otros administradores") >>
                          /\ UNCHANGED us_tabla
                     ELSE IF /\ user_update.rol # None
                             /\ usuario.id = current_admin.id
                             /\ usuario.rol # user_update.rol[1]
                     THEN /\ us_respuesta' =
                                << RespuestaHTTP(current_admin.id, 403,
                                         "No puedes cambiar tu propio rol") >>
                          /\ UNCHANGED us_tabla
                     ELSE /\ us_tabla' =
                                ConUsuario(us_tabla, usuario,
                                           Actualizado(usuario, user_update))
                          /\ us_respuesta' =
                                << RespuestaHTTP(current_admin.id, 200, "") >>
    /\ UNCHANGED sin_usuarios

\* main.py 385-454: DELETE /admin/users/{user_id}
eliminar_usuario_admin ==
    /\ \E current_admin \in AdministradoresActuales,
          user_id \in 1..MaxUsuarios, hard_delete \in BOOLEAN :
          LET filas == { u \in us_tabla : u.id = user_id }
          IN IF user_id = current_admin.id
             THEN /\ us_respuesta' =
                        << RespuestaHTTP(current_admin.id, 400,
                                         "No puedes eliminar tu propia cuenta") >>
                  /\ UNCHANGED us_tabla
             ELSE IF filas = {}
             THEN /\ us_respuesta' =
                        << RespuestaHTTP(current_admin.id, 404,
                                         "Usuario no encontrado") >>
                  /\ UNCHANGED us_tabla
             ELSE LET usuario == CHOOSE u \in filas : TRUE
                  IN IF usuario.rol = "admin"
                     THEN /\ us_respuesta' =
                                << RespuestaHTTP(current_admin.id, 403,
                                         "No tienes permisos para eliminar otros administradores") >>
                          /\ UNCHANGED us_tabla
                     ELSE /\ us_tabla' =
                                (IF hard_delete
                                 THEN us_tabla \ { usuario }
                                 ELSE ConUsuario(us_tabla, usuario,
                                         Usuario(usuario.id, usuario.rol, FALSE)))
                          /\ us_respuesta' =
                                << RespuestaHTTP(current_admin.id, 200, "") >>
    /\ UNCHANGED sin_usuarios

\* main.py 456-495: PATCH /admin/users/{user_id}/activate
activar_usuario_admin ==
    /\ \E current_admin \in AdministradoresActuales,
          user_id \in 1..MaxUsuarios :
          LET filas == { u \in us_tabla : u.id = user_id }
          IN IF user_id = current_admin.id
             THEN /\ us_respuesta' =
                        << RespuestaHTTP(current_admin.id, 400,
                                         "No puedes reactivar tu propia cuenta desde este endpoint") >>
                  /\ UNCHANGED us_tabla
             ELSE IF filas = {}
             THEN /\ us_respuesta' =
                        << RespuestaHTTP(current_admin.id, 404,
                                         "Usuario no encontrado") >>
                  /\ UNCHANGED us_tabla
             ELSE LET usuario == CHOOSE u \in filas : TRUE
                  IN IF usuario.activo
                     THEN /\ us_respuesta' =
                                << RespuestaHTTP(current_admin.id, 400,
                                         "El usuario ya está activo") >>
                          /\ UNCHANGED us_tabla
                     ELSE /\ us_tabla' =
                                ConUsuario(us_tabla, usuario,
                                    Usuario(usuario.id, usuario.rol, TRUE))
                          /\ us_respuesta' =
                                << RespuestaHTTP(current_admin.id, 200, "") >>
    /\ UNCHANGED sin_usuarios

\* main.py 497-544: PATCH /admin/users/{user_id}/deactivate
desactivar_usuario_admin ==
    /\ \E current_admin \in AdministradoresActuales,
          user_id \in 1..MaxUsuarios :
          LET filas == { u \in us_tabla : u.id = user_id }
          IN IF user_id = current_admin.id
             THEN /\ us_respuesta' =
                        << RespuestaHTTP(current_admin.id, 400,
                                         "No puedes desactivar tu propia cuenta") >>
                  /\ UNCHANGED us_tabla
             ELSE IF filas = {}
             THEN /\ us_respuesta' =
                        << RespuestaHTTP(current_admin.id, 404,
                                         "Usuario no encontrado") >>
                  /\ UNCHANGED us_tabla
             ELSE LET usuario == CHOOSE u \in filas : TRUE
                  IN IF ~usuario.activo
                     THEN /\ us_respuesta' =
                                << RespuestaHTTP(current_admin.id, 400,
                                         "El usuario ya está inactivo") >>
                          /\ UNCHANGED us_tabla
                     ELSE IF usuario.rol = "admin"
                     THEN /\ us_respuesta' =
                                << RespuestaHTTP(current_admin.id, 403,
                                         "No tienes permisos para desactivar otros administradores") >>
                          /\ UNCHANGED us_tabla
                     ELSE /\ us_tabla' =
                                ConUsuario(us_tabla, usuario,
                                    Usuario(usuario.id, usuario.rol, FALSE))
                          /\ us_respuesta' =
                                << RespuestaHTTP(current_admin.id, 200, "") >>
    /\ UNCHANGED sin_usuarios

NextUsuarios ==
    \/ actualizar_usuario_admin
    \/ eliminar_usuario_admin
    \/ activar_usuario_admin
    \/ desactivar_usuario_admin

SpecUsuarios == InitUsuarios /\ [][NextUsuarios]_vars

(***************************************************************************)
(* Properties                                                              *)
(***************************************************************************)
NumLlamadas(tipo) ==
    Cardinality({ i \in 1..Len(llamadas_llm) : llamadas_llm[i].tipo = tipo })

NumEjecuciones == Len(ejecuciones)

PrimariaEs(tipo) == NumEjecuciones >= 1 /\ ejecuciones[1].tipo = tipo

PrimariaVacia == PrimariaEs("ok") /\ ejecuciones[1].filas = 0

\* the question matches a sensitive pattern and not the allowlist
ClasificadaSensible(q) ==
    /\ AnySearch(PATRONES_CONSULTAS_SENSIBLES, LowerSeq(q))
    /\ ~AnySearch(patrones_deportivos_genero, LowerSeq(q))

\* C1: a question classified as sensitive is answered with rechazada = true,
\* a canned rejection message, no SQL and no context, and the invocation
\* makes no LLM call, no store read and no statement execution.
C1_SensibleRechazada ==
    ClasificadaSensible(pregunta) =>
        /\ llamadas_llm = << >>
        /\ lecturas_db = << >>
        /\ ejecuciones = << >>
        /\ pc \in {"inicio", "done"}
        /\ pc = "done" =>
              /\ resultado.rechazada = "True"
              /\ resultado.respuesta \in { << m >> : m \in MensajesRechazo }
              /\ resultado.consulta_sql = None
              /\ resultado.datos_contexto = None

C1_Witness ==
    /\ pc = "done"
    /\ ClasificadaSensible(pregunta)
    /\ resultado.rechazada = "True"
    /\ pregunta = << "DROP", "TABLE", "medallas_olimpicas" >>

\* C2 as stated: every invocation ends by returning a dictionary whose
\* respuesta is a non-empty message.
C2_RespuestaNoVacia ==
    /\ pc # "done" => ENABLED Next
    /\ pc = "done" => resultado.respuesta # << >>

\* the fixed texts of the rejection, structure and failure outcomes
RespuestasFijas ==
    { << m >> : m \in MensajesRechazo \cup
                      { MSG_ESTRUCTURA_PUBLICA, MSG_FALLBACK_FALLO,
                        MSG_ERROR_EJECUCION } }
    \cup
    { << MSG_ERROR_PREFIJO, g >> :
          g \in { SUGERENCIA_PAISES, SUGERENCIA_NATACION, SUGERENCIA_GENERO,
                  SUGERENCIA_DEFECTO } }

\* C2 amended: every invocation ends by returning a dictionary (no step
\* leaves it without a successor before the return); on every path but the
\* successful one respuesta is a non-empty fixed message, and on the
\* successful path it is the trimmed text of the answer LLM, which is empty
\* when that text is blank.
C2_SiempreRetorna ==
    /\ pc # "done" => ENABLED Next
    /\ pc = "done" =>
          IF resultado.datos_contexto = None
          THEN resultado.respuesta \in RespuestasFijas
          ELSE /\ resultado.respuesta \in { Strip(r) : r \in RespuestasLLM_Texto }
               /\ llamadas_llm[Len(llamadas_llm)].tipo = "respuesta"

C2_Witness ==
    /\ pc = "done"
    /\ resultado.fallback_used = "True"
    /\ resultado.respuesta[1] = MSG_ERROR_PREFIJO
    /\ NumEjecuciones = 3

\* C3: ejecutar_sql is called at most twice in one invocation.
C3_AlMasDosEjecuciones == NumEjecuciones <= 2

\* a statement text is one read-only SELECT on the permitted table only
SentenciaInfo(f) ==
    CASE f = SQL_SELECT_MEDALLAS ->
            [verbo |-> "SELECT", tablas |-> {"medallas_olimpicas"}]
      [] f = SQL_POR_DEFECTO ->
            [verbo |-> "SELECT", tablas |-> {"medallas_olimpicas"}]
      [] f = SQL_DELETE_USUARIOS ->
            [verbo |-> "DELETE", tablas |-> {"usuarios"}]
      [] OTHER -> [verbo |-> "", tablas |-> {}]

EsSelectPermitido(sql) ==
    /\ Len(sql) = 1
    /\ SentenciaInfo(sql[1]).verbo = "SELECT"
    /\ SentenciaInfo(sql[1]).tablas \subseteq TABLAS_PUBLICAS_PERMITIDAS

\* C4: every non-empty statement passed to ejecutar_sql is a single
\* read-only SELECT on medallas_olimpicas only.
C4_SoloSelectPermitido ==
    \A i \in 1..NumEjecuciones :
        ejecuciones[i].sql # << >> => EsSelectPermitido(ejecuciones[i].sql)

\* C5: a question that matches the allowlist is never ended by the guard,
\* neither with a rejection nor with the structure description: it goes on
\* to the pipeline.
C5_ValidaProcede ==
    es_consulta_deportiva_valida(pregunta) =>
        /\ resultado.respuesta \notin
              { << m >> : m \in MensajesRechazo \cup { MSG_ESTRUCTURA_PUBLICA } }
        /\ pc = "done" => lecturas_db # << >>

FalloFallback == Dict(<< MSG_FALLBACK_FALLO >>, None, None, "ausente", "True")

\* C6: after a SQLSyntaxError on the primary execution a simplified statement
\* is generated and executed; if that second step fails, the outcome is the
\* fixed "reformularla de manera más simple" message without SQL and context,
\* and nothing more is generated or executed.
C6_FallbackSintaxis ==
    PrimariaEs("SQLSyntaxError") =>
        /\ pc \in {"sintaxis_ejecutar", "vacio_generar", "vacio_ejecutar",
                    "respuesta", "except", "done"} =>
              /\ NumLlamadas("simplificada") >= 1
              /\ llamadas_llm[2].tipo = "simplificada"
        /\ (NumEjecuciones = 2 /\ pc # "vacio_ejecutar") =>
              ejecuciones[2].sql = sql_query_fallback
        /\ (NumEjecuciones >= 2 /\ ejecuciones[2].tipo # "ok") =>
              /\ pc = "done"
              /\ resultado = FalloFallback
              /\ NumEjecuciones = 2
              /\ Len(llamadas_llm) = 2
        /\ (pc = "done" /\ NumEjecuciones = 1) => resultado = FalloFallback

C6_Witness ==
    /\ PrimariaEs("SQLSyntaxError")
    /\ NumEjecuciones = 2
    /\ ejecuciones[2].tipo = "SQLExecutionError"
    /\ resultado = FalloFallback

\* C7: a SQLSyntaxError on the primary execution leads to exactly one
\* simplified generation and exactly one further execution, also when the
\* fallback statement returns no rows.
C7_UnSoloFallback ==
    (PrimariaEs("SQLSyntaxError") /\ pc = "done") =>
        /\ NumLlamadas("simplificada") = 1
        /\ NumEjecuciones = 2

\* C8: after a SQLExecutionError on the primary execution the pipeline stops:
\* no simplified generation, no second execution, no answer generation, and
\* the fixed "problema al acceder a los datos" outcome.
C8_ErrorEjecucionSinReintento ==
    PrimariaEs("SQLExecutionError") =>
        /\ pc = "done"
        /\ NumEjecuciones = 1
        /\ Len(llamadas_llm) = 1
        /\ llamadas_llm[1].tipo = "sql"
        /\ resultado = Dict(<< MSG_ERROR_EJECUCION >>, None, None,
                            "ausente", "True")

C8_Witness ==
    /\ PrimariaEs("SQLExecutionError")
    /\ pc = "done"
    /\ transaccion

ReintentoConFilas ==
    /\ NumEjecuciones >= 2
    /\ ejecuciones[2].tipo = "ok"
    /\ ejecuciones[2].filas >= 1

\* C9: after an empty primary result for a question that should have
\* results, exactly one simplified retry is made; its rows and SQL are
\* adopted iff it returned at least one row, otherwise the empty result and
\* the primary SQL are kept; answer generation follows in both cases.
C9_ReintentoVacio ==
    (PrimariaVacia /\ deberia_tener_resultados(pregunta)) =>
        /\ pc \in {"vacio_generar", "vacio_ejecutar", "respuesta", "except", "done"}
        /\ pc \in {"respuesta", "except", "done"} =>
              /\ NumLlamadas("simplificada") = 1
              /\ NumEjecuciones = 2
              /\ IF ReintentoConFilas
                 THEN /\ sql_query = ejecuciones[2].sql
                      /\ Len(resultados_sql) = ejecuciones[2].filas
                 ELSE /\ sql_query = ejecuciones[1].sql
                      /\ resultados_sql = << >>
              /\ pc = "except" => llamadas_llm[Len(llamadas_llm)].tipo = "respuesta"
        /\ (pc = "done") =>
              /\ llamadas_llm[Len(llamadas_llm)].tipo = "respuesta"
              /\ llamadas_llm[Len(llamadas_llm)].filas = Len(resultados_sql)
              /\ resultado.consulta_sql \in {None, Some(sql_query)}

C9_Witness ==
    /\ PrimariaVacia
    /\ deberia_tener_resultados(pregunta)
    /\ ReintentoConFilas
    /\ ejecuciones[2].sql # ejecuciones[1].sql
    /\ pc = "done"
    /\ resultado.consulta_sql = Some(ejecuciones[2].sql)

\* C10: for a question of the known-zero-result class an empty primary
\* result starts no fallback: one execution, no simplified generation, and
\* the answer generator gets the empty result with the primary SQL.
C10_ExcepcionSinFallback ==
    (PrimariaVacia /\ es_excepcion_sin_resultados(pregunta)) =>
        /\ NumEjecuciones = 1
        /\ NumLlamadas("simplificada") = 0
        /\ pc \in {"respuesta", "except", "done"}
        /\ resultados_sql = << >>
        /\ sql_query = ejecuciones[1].sql
        /\ pc # "respuesta" =>
              /\ llamadas_llm[Len(llamadas_llm)].tipo = "respuesta"
              /\ llamadas_llm[Len(llamadas_llm)].filas = 0

C10_Witness ==
    /\ PrimariaVacia
    /\ es_excepcion_sin_resultados(pregunta)
    /\ AnySearch(patrones_con_resultados, LowerSeq(pregunta))
    /\ pc = "done"
    /\ resultado.consulta_sql = Some(ejecuciones[1].sql)

\* the primary generator obtener_consulta_sql raised
GeneracionPrimariaFallo ==
    /\ generaciones # << >>
    /\ generaciones[1].fn = "obtener_consulta_sql"
    /\ generaciones[1].salida = "raise"

\* the simplified generator was called
SimplificadaIntentada ==
    \E i \in 1..Len(generaciones) :
        generaciones[i].fn = "obtener_consulta_sql_simplificada"

\* C11: when the primary SQL generation fails (no client, or the LLM call
\* raises) the invocation returns its failure outcome only after the
\* simplified generator has been called.
C11_GeneracionFallidaIntentaSimplificada ==
    (pc = "done" /\ GeneracionPrimariaFallo) => SimplificadaIntentada

\* the fragments of a set of texts
Fragmentos(T) == UNION { { t[i] : i \in 1..Len(t) } : t \in T }

\* the texts no answer may show: the messages of the exceptions raised in the
\* invocation, the errors of the store and the statements
TextosTecnicos ==
    { ERROR_SIN_CLIENTE, ERROR_GENERAR_SQL, ERROR_GENERAR_RESPUESTA, ERROR_LLM,
      ERROR_SIN_ATRIBUTO, ERROR_ALMACEN }
    \cup Fragmentos(ErroresDB)
    \cup Fragmentos({ mensaje_de_error(e) : e \in ErroresDB })
    \cup Fragmentos(SentenciasSQL)

\* C12: in every outcome without a statement (rejection, structure answer
\* and every failure) respuesta is one of the fixed messages and none of its
\* fragments is the text of the exception raised, of a statement generated or
\* executed, or of an error of the store.
C12_SoloTextoFijo ==
    (pc = "done" /\ resultado.consulta_sql = None) =>
        /\ resultado.respuesta \in RespuestasFijas
        /\ \A i \in 1..Len(resultado.respuesta) :
              /\ resultado.respuesta[i] \notin TextosTecnicos
              /\ resultado.respuesta[i] \notin Fragmentos({ excepcion })
              /\ \A k \in 1..Len(ejecuciones) :
                    resultado.respuesta[i] \notin Fragmentos({ ejecuciones[k].sql })

C12_Witness ==
    /\ pc = "done"
    /\ resultado.consulta_sql = None
    /\ excepcion = << ERROR_GENERAR_RESPUESTA, ERROR_LLM >>
    /\ NumEjecuciones >= 1
    /\ resultado.respuesta = << MSG_ERROR_PREFIJO, SUGERENCIA_NATACION >>

\* the execution number k produced the result that is reported: it
\* succeeded and it is the primary one, or it follows a syntax error, or it
\* is a retry that returned rows
EsAdoptable(k) ==
    /\ ejecuciones[k].tipo = "ok"
    /\ \/ k = 1
       \/ ejecuciones[k - 1].tipo = "SQLSyntaxError"
       \/ ejecuciones[k].filas > 0

\* the last such execution
IndiceAdoptado ==
    CHOOSE k \in 1..NumEjecuciones :
        EsAdoptable(k) /\ \A j \in (k + 1)..NumEjecuciones : ~EsAdoptable(j)

\* C13: in every successful outcome total_resultados is the number of rows
\* of the adopted result, muestra_datos is its first min(5, total) rows in
\* order, sql_ejecutado is the outcome's consulta_sql, which is the statement
\* of the adopted execution, and terminos_excluidos_aplicados is the number
\* of active excluded terms of the user.
C13_DatosContextoCoherentes ==
    (pc = "done" /\ resultado.datos_contexto # None) =>
        LET d == resultado.datos_contexto[1]
            n == ejecuciones[IndiceAdoptado].filas
        IN /\ d.total_resultados = n
           /\ Len(d.muestra_datos) = (IF n <= 5 THEN n ELSE 5)
           /\ \A i \in 1..Len(d.muestra_datos) : d.muestra_datos[i] = Filas(n)[i]
           /\ n <= 5 => d.total_resultados = Len(d.muestra_datos)
           /\ resultado.consulta_sql = Some(d.sql_ejecutado)
           /\ d.sql_ejecutado = ejecuciones[IndiceAdoptado].sql
           /\ d.terminos_excluidos_aplicados = Len(db_terminos)

C13_Witness ==
    /\ pc = "done"
    /\ resultado.datos_contexto # None
    /\ IndiceAdoptado = 3
    /\ resultado.datos_contexto[1].total_resultados = MaxFilas
    /\ Len(resultado.datos_contexto[1].muestra_datos) = 5
    /\ resultado.datos_contexto[1].terminos_excluidos_aplicados = 1
    /\ resultado.datos_contexto[1].sql_ejecutado = << SQL_POR_DEFECTO >>
    /\ sql_query_fallback = << SQL_POR_DEFECTO >>

\* C14: once a call of ejecutar_sql has returned or raised, the session has
\* no transaction in progress, at any later step of the invocation.
C14_TransaccionPorEjecucion ==
    NumEjecuciones >= 1 => ~transaccion

\* the errors of the store that are problems of the statement's syntax or of
\* the names it uses
ErroresDeSintaxis ==
    { << "(psycopg2.errors.", "InvalidColumnReference", ")" >>,
      << "ORDER BY expressions must appear", " in argument list" >>,
      << "syntax error", " at or near" >>,
      << "column", " x ", "does not exist" >>,
      << "relation", " usuarios ", "does not exist" >> }

\* C15: when the try block of ejecutar_sql fails, db.rollback() is called
\* exactly once before the exception is raised, and the exception raised is
\* SQLSyntaxError or SQLExecutionError chosen from the message of the
\* original error, whether or not the rollback itself succeeded; a call that
\* succeeds never rolls back.
C15_RollbackUnaVezYClasifica ==
    /\ ej_pc = "return" => ej_rollbacks = 0 /\ ej_salida.tipo = "ok"
    /\ ej_pc = "clasificar" => ej_rollbacks = 1
    /\ ej_pc = "raise" =>
          /\ ej_rollbacks = 1
          /\ ej_error \in ErroresDB
          /\ ej_salida.tipo = (IF ej_error \in ErroresDeSintaxis
                               THEN "SQLSyntaxError" ELSE "SQLExecutionError")
          /\ ej_salida.mensaje # ERROR_ROLLBACK
          /\ ej_salida.tipo = "SQLExecutionError" =>
                ej_salida.mensaje = << "Database query execution failed: " >> \o ej_error

C15_Witness ==
    /\ ej_pc = "raise"
    /\ ~ej_rollback_ok
    /\ transaccion
    /\ ej_rollbacks = 1
    /\ ej_error = << "column", " x ", "does not exist" >>
    /\ ej_salida.tipo = "SQLSyntaxError"

\* the question matches a structure pattern of validar_respuesta_estructura_db
EsPreguntaDeEstructura(q) == AnySearch(patrones_estructura, LowerSeq(q))

RespuestaDeEstructura ==
    Dict(<< MSG_ESTRUCTURA_PUBLICA >>, None, None, "False", "ausente")

\* C16 as stated: every question that matches a structure pattern is
\* answered with the description of the dataset and rechazada = false, never
\* with a rejection.
C16_EstructuraPrevalece ==
    (pc = "done" /\ EsPreguntaDeEstructura(pregunta)) =>
        resultado = RespuestaDeEstructura

\* C16 amended: a question that matches a structure pattern is answered
\* with the description of the dataset and rechazada = false when
\* detectar_consulta_sensible does not classify it as sensitive; when it
\* does, the rejection comes first and the outcome is rechazada = true with
\* a rejection message.  Either way no store read, LLM call or execution is
\* made.
C16_EstructuraTrasRechazo ==
    EsPreguntaDeEstructura(pregunta) =>
        /\ pc \in {"inicio", "done"}
        /\ llamadas_llm = << >> /\ lecturas_db = << >> /\ ejecuciones = << >>
        /\ pc = "done" =>
              IF ClasificadaSensible(pregunta)
              THEN /\ resultado.rechazada = "True"
                   /\ resultado.respuesta \in { << m >> : m \in MensajesRechazo }
                   /\ resultado.consulta_sql = None
              ELSE resultado = RespuestaDeEstructura

C16_Witness ==
    /\ pc = "done"
    /\ pregunta = << "which", "tables" >>
    /\ EsPreguntaDeEstructura(pregunta)
    /\ ~ClasificadaSensible(pregunta)
    /\ resultado = RespuestaDeEstructura

\* the category of the first sensitive pattern that the question matches
CategoriaDe(q) == CategoriaDePatron(PrimerPatron(LowerSeq(q)))

\* the rejection message of a question classified as sensitive
MensajeDe(q) == detectar_consulta_sensible(q).mensaje

TienePalabra(q, S) == \E i \in 1..Len(q) : q[i] \in S

\* the first keyword test of the message cascade that the question passes
GrupoDePalabras(texto) ==
    LET q == LowerSeq(texto) IN
    IF \E i \in 1..Len(q) : \E j \in (i + 1)..Len(q) :
          /\ q[i] \in {"user", "usuario", "users", "usuarios"}
          /\ q[j] \in {"password", "contraseña", "pass", "pwd", "email", "mail"}
    THEN "usuarios"
    ELSE IF TienePalabra(q, {"table", "tabla", "tables", "tablas", "database",
                             "base", "schema", "column", "columna", "columns",
                             "columnas", "field", "campo", "fields", "campos",
                             "structure", "estructura"})
    THEN "estructura"
    ELSE IF TienePalabra(q, {"config", "configuracion", "admin", "administrator",
                             "administrador", "system", "sistema"})
    THEN "sistema"
    ELSE IF TienePalabra(q, {"conversacione", "conversaciones", "conversation",
                             "conversations", "message", "mensaje", "messages",
                             "mensajes", "chat"})
    THEN "conversaciones"
    ELSE "generico"

SoloPatronDDL(q) ==
    /\ ~es_consulta_deportiva_valida(q)
    /\ \A k \in 1..Len(PATRONES_CONSULTAS_SENSIBLES) :
          Search(PATRONES_CONSULTAS_SENSIBLES[k], LowerSeq(q)) <=> k = PATRON_DDL

DevuelveSQL(g) == g.salida # "raise"

\* the generator calls that returned a statement, in order: the k-th of them
\* produced the statement of the k-th execution
GeneracionesConSQL == SelectSeq(generaciones, DevuelveSQL)

\* C19: when the user has an active excluded term and the invocation ends
\* with a statement, that statement was written by the LLM from a prompt that
\* lists the user's excluded terms.
C19_TerminosEnPrompt ==
    (pc = "done" /\ resultado.consulta_sql # None /\ terminos_excluidos # << >>) =>
        /\ GeneracionesConSQL[IndiceAdoptado].salida = "llm"
        /\ GeneracionesConSQL[IndiceAdoptado].terminos = terminos_excluidos

\* the reads of the store made so far are the read of the prompt followed by
\* the read of the terms, each at most once
LecturasUnaVez ==
    lecturas_db \in { << >>, << "prompt" >>, << "prompt", "terminos" >> }

\* every request sent to the LLM carries the prompt held in prompt_contexto,
\* and every request for the primary statement the terms of terminos_excluidos
LlamadasUsanInstantanea ==
    \A i \in 1..Len(llamadas_llm) :
        /\ llamadas_llm[i].prompt_contexto = prompt_contexto
        /\ llamadas_llm[i].tipo = "sql" =>
              llamadas_llm[i].terminos = terminos_excluidos

\* C20: while other requests change the stored prompt configuration and the
\* user's excluded terms, the invocation reads each of them exactly once,
\* after the guard and before its first LLM call; the values read do not
\* change afterwards, and every LLM request and the context payload use them.
C20_InstantaneaUnica ==
    /\ [](/\ LecturasUnaVez
          /\ pc = "inicio" => lecturas_db = << >>
          /\ llamadas_llm # << >> => lecturas_db = << "prompt", "terminos" >>
          /\ LlamadasUsanInstantanea
          /\ (pc = "done" /\ resultado.datos_contexto # None) =>
                resultado.datos_contexto[1].terminos_excluidos_aplicados
                    = Len(terminos_excluidos))
    /\ [][/\ Len(lecturas_db) >= 1 => prompt_contexto' = prompt_contexto
          /\ Len(lecturas_db) = 2 => terminos_excluidos' = terminos_excluidos
          /\ (Len(lecturas_db) = 0 /\ Len(lecturas_db') = 1 /\ pc' = "terminos") =>
                prompt_contexto' = (IF db_prompt # None THEN db_prompt[1]
                                                        ELSE PROMPT_POR_DEFECTO)
          /\ (Len(lecturas_db) = 1 /\ Len(lecturas_db') = 2 /\ pc' = "generar") =>
                terminos_excluidos' = db_terminos]_vars

C20_Witness ==
    /\ pc = "done"
    /\ resultado.datos_contexto # None
    /\ Len(llamadas_llm) = 4
    /\ prompt_contexto = PROMPT_ADMIN
    /\ db_prompt = Some(PROMPT_ADMIN_2)
    /\ terminos_excluidos = << "brasil" >>
    /\ db_terminos = << >>
    /\ resultado.datos_contexto[1].terminos_excluidos_aplicados = 1

\* C21 as stated: after a syntax-classified error on the primary statement,
\* the second statement executed differs from the primary statement,
\* whatever the LLM answers to the two generation prompts.
C21_SegundaDistinta ==
    (PrimariaEs("SQLSyntaxError") /\ NumEjecuciones >= 2) =>
        ejecuciones[2].sql # ejecuciones[1].sql

\* the statements the simplified path returns from a reply of the LLM
SentenciasSimplificadas == { Strip(r) : r \in RespuestasLLM_SQL }

\* C21 amended: after a syntax-classified error on the primary statement,
\* the second statement executed is the one the simplified generation path
\* returned: the trimmed reply of the LLM to the simplified prompt (a request
\* of its own, without the excluded terms), or the default query when that
\* request failed.  Nothing compares it with the primary statement: when the
\* LLM gives the same text to both prompts the same statement is executed
\* twice.
C21_SegundaDeSimplificada ==
    (PrimariaEs("SQLSyntaxError") /\ NumEjecuciones >= 2) =>
        /\ Len(generaciones) >= 2
        /\ generaciones[1].fn = "obtener_consulta_sql"
        /\ generaciones[2].fn = "obtener_consulta_sql_simplificada"
        /\ llamadas_llm[2] = Llamada("simplificada", prompt_contexto, << >>, 0)
        /\ generaciones[2].salida \in {"llm", "defecto"}
        /\ generaciones[2].salida = "llm" =>
              ejecuciones[2].sql \in SentenciasSimplificadas
        /\ generaciones[2].salida = "defecto" =>
              ejecuciones[2].sql = << SQL_POR_DEFECTO >>

C21_Witness ==
    /\ PrimariaEs("SQLSyntaxError")
    /\ NumEjecuciones >= 2
    /\ generaciones[2].salida = "llm"
    /\ ejecuciones[1].sql = << SQL_SELECT_MEDALLAS >>
    /\ ejecuciones[2].sql = ejecuciones[1].sql

\* what the guard step of the invocation itself decided, read from its
\* outcome: it rejected, it gave the structure description, or it let the
\* question through
GuardaRechazo == pc = "done" /\ resultado.rechazada = "True"

GuardaEstructura == pc = "done" /\ resultado.rechazada = "False"

MensajeContiene(m, s) == \E i \in 1..Len(m) : m[i] = s

\* the condition under which a failure is a syntax error
EsMensajeDeSintaxis(m) ==
    \/ MensajeContiene(m, "invalidcolumnreference")
    \/ MensajeContiene(m, "order by expressions must appear")
    \/ MensajeContiene(m, "syntax error")
    \/ MensajeContiene(m, "column") /\ MensajeContiene(m, "does not exist")
    \/ MensajeContiene(m, "relation") /\ MensajeContiene(m, "does not exist")

\* C23: every failure of ejecutar_sql raises exactly one of SQLSyntaxError
\* and SQLExecutionError, and it raises SQLSyntaxError if and only if the
\* lower-cased message of the error contains 'invalidcolumnreference', or
\* 'order by expressions must appear', or 'syntax error', or both 'column'
\* and 'does not exist', or both 'relation' and 'does not exist'; a call
\* that fails never returns rows.
C23_ClasificacionTotalYExclusiva ==
    /\ ej_error # None => ej_pc \in {"rollback", "clasificar", "raise"}
    /\ ej_pc = "raise" =>
          LET m == [i \in 1..Len(ej_error) |-> LowerFragmento(ej_error[i])] IN
          /\ ej_error # None
          /\ ej_salida.tipo \in {"SQLSyntaxError", "SQLExecutionError"}
          /\ ej_salida.filas = << >>
          /\ ej_salida.tipo = "SQLSyntaxError" <=> EsMensajeDeSintaxis(m)
          /\ ej_salida.tipo = "SQLExecutionError" <=> ~EsMensajeDeSintaxis(m)

C23_Witness ==
    /\ ej_pc = "raise"
    /\ ej_error = << "null value in ", "column", " violates not-null constraint" >>
    /\ ej_salida.tipo = "SQLExecutionError"

\* the question matches a pattern of the exception list / of the positive list
CoincideExcepcion(q) == AnySearch(excepciones_sin_resultados, LowerSeq(q))

CoincidePositivo(q) == AnySearch(patrones_con_resultados, LowerSeq(q))

\* the retry for an unexpected empty result has been started
ReintentoIniciado == pc = "vacio_generar" \/ SimplificadaIntentada

\* C24: deberia_tener_resultados tries the exception list first: after an
\* empty primary result, the question is treated as one that should have
\* results (the simplified retry is started) if and only if it matches no
\* exception pattern and at least one positive pattern; a question matching
\* an exception pattern is classified False even when it also matches a
\* positive pattern.
C24_ExcepcionesPrimero ==
    /\ deberia_tener_resultados(pregunta) <=>
          (~CoincideExcepcion(pregunta) /\ CoincidePositivo(pregunta))
    /\ PrimariaVacia =>
          /\ ReintentoIniciado <=>
                (~CoincideExcepcion(pregunta) /\ CoincidePositivo(pregunta))
          /\ CoincideExcepcion(pregunta) =>
                (NumEjecuciones = 1 /\ pc \in {"respuesta", "except", "done"})

C24_Witness ==
    /\ PrimariaVacia
    /\ pregunta = << "which", "cities", "were", "host", "more", "than", "once" >>
    /\ CoincideExcepcion(pregunta)
    /\ CoincidePositivo(pregunta)
    /\ ~ReintentoIniciado
    /\ pc = "done"
    /\ resultado.datos_contexto # None
    /\ resultado.datos_contexto[1].total_resultados = 0

\* the index of the first fence at or after from, or Len(t) + 1
SiguienteFence(t, from) ==
    IF \E i \in from..Len(t) : t[i] \in Fences
    THEN CHOOSE i \in from..Len(t) :
            t[i] \in Fences /\ \A j \in from..(i - 1) : t[j] \notin Fences
    ELSE Len(t) + 1

RECURSIVE BloquesDe(_)
\* the fenced blocks of a text, in order: the tag of the opening fence and
\* the trimmed lines between the opening fence line and the closing fence
BloquesDe(t) ==
    LET a == SiguienteFence(t, 1) IN
    IF a > Len(t) THEN << >>
    ELSE LET etiqueta == IF t[a] = FENCE_SQL THEN "sql"
                         ELSE IF a + 1 <= Len(t) /\ t[a + 1] \in Etiquetas
                         THEN t[a + 1] ELSE ""
             ini == IF etiqueta \in Etiquetas THEN a + 2 ELSE a + 1
             b == SiguienteFence(t, ini)
         IN << [ etiqueta |-> etiqueta,
                 contenido |-> Strip(SubSeq(t, ini, b - 1)) ] >>
            \o BloquesDe(SubSeq(t, b + 1, Len(t)))

EsBloqueSQL(b) == b.etiqueta = "sql"

\* the statement the claim describes for a reply of the LLM
SentenciaEsperada(t) ==
    LET bs == BloquesDe(t) IN
    IF SelectSeq(bs, EsBloqueSQL) # << >>
    THEN SelectSeq(bs, EsBloqueSQL)[1].contenido
    ELSE IF bs # << >> THEN bs[1].contenido
    ELSE Strip(t)

\* C25: the primary generator returns the trimmed contents of the first
\* block tagged sql if the reply has one, else the trimmed contents of the
\* first fenced block if it has any, else the trimmed reply; nothing from
\* outside the selected block is in the result.
C25_ExtraeBloque ==
    (gen_pc = "return" /\ gen_fn = "obtener_consulta_sql") =>
        gen_sql = SentenciaEsperada(gen_respuesta)

\* the text has a code-fence marker
TieneFence(t) == \E i \in 1..Len(t) : t[i] \in Fences

\* C26: no statement returned by a SQL generator, primary or simplified, and
\* so no statement passed to ejecutar_sql, contains a code-fence marker.
C26_SinFences ==
    /\ ~TieneFence(sql_query)
    /\ ~TieneFence(sql_query_fallback)
    /\ \A k \in 1..NumEjecuciones : ~TieneFence(ejecuciones[k].sql)

\* a statement has been returned by a generator and not yet executed
SentenciaPendiente == pc \in {"ejecutar", "sintaxis_ejecutar", "vacio_ejecutar"}

\* C27: a failure of the LLM call of the simplified path is not raised: the
\* simplified generator returns the default query (top-10 countries by gold
\* medals), and the pipeline executes that query as its fallback statement;
\* the simplified generator raises only when the LLM client is missing.
C27_FalloLLMDaDefecto ==
    /\ \A g \in obtener_consulta_sql_simplificada(client) :
          /\ g.raises <=> ~client
          /\ g.salida = "defecto" => g.sql = << SQL_POR_DEFECTO >>
    /\ \A i \in 1..Len(generaciones) :
          /\ generaciones[i].salida = "defecto" =>
                generaciones[i].fn = "obtener_consulta_sql_simplificada"
          /\ (generaciones[i].fn = "obtener_consulta_sql_simplificada"
                /\ generaciones[i].salida = "raise") => ~client
    /\ Len(GeneracionesConSQL) =
          NumEjecuciones + (IF SentenciaPendiente THEN 1 ELSE 0)
    /\ \A k \in 1..NumEjecuciones :
          GeneracionesConSQL[k].salida = "defecto" =>
              ejecuciones[k].sql = << SQL_POR_DEFECTO >>
    /\ (SentenciaPendiente /\ pc # "ejecutar"
          /\ generaciones[Len(generaciones)].salida = "defecto") =>
              (sql_query_fallback = << SQL_POR_DEFECTO >> /\ excepcion = None)

C27_Witness ==
    /\ pc = "done"
    /\ PrimariaEs("SQLSyntaxError")
    /\ generaciones[2] = Generacion("obtener_consulta_sql_simplificada", << >>,
                                    "defecto")
    /\ Len(llamadas_llm) = 3
    /\ NumEjecuciones = 2
    /\ ejecuciones[2] = [ sql |-> << SQL_POR_DEFECTO >>, tipo |-> "ok", filas |-> 1 ]
    /\ resultado.consulta_sql = Some(<< SQL_POR_DEFECTO >>)

\* the lower-cased question contains one of the words of S
Menciona(q, S) ==
    \E i \in 1..Len(q) : \E s \in S : Contiene(Lower(q[i]), s)

PalabrasPais == {"countries", "países", "paises", "country"}
PalabrasNatacion == {"swimming", "natación", "natacion"}
PalabrasGenero == {"female", "male", "men", "women", "género", "genero"}

\* the rank of the suggestion for a question: 1 country, 2 swimming,
\* 3 gender, 4 default
RangoSugerencia(q) ==
    IF Menciona(q, PalabrasPais) THEN 1
    ELSE IF Menciona(q, PalabrasNatacion) THEN 2
    ELSE IF Menciona(q, PalabrasGenero) THEN 3
    ELSE 4

Sugerencias ==
    << SUGERENCIA_PAISES, SUGERENCIA_NATACION, SUGERENCIA_GENERO,
       SUGERENCIA_DEFECTO >>

\* C28: when the answer generation fails after the statement was resolved,
\* or any other exception reaches the outer handler, the outcome has
\* consulta_sql = None and datos_contexto = None, and respuesta is the fixed
\* prefix followed by exactly one suggestion: the country one if the
\* lower-cased question contains a country word, else the swimming one if it
\* contains a swimming word, else the gender one if it contains a gender
\* word, else the default one.  No other outcome begins with that prefix.
C28_SugerenciaPorPrioridad ==
    /\ pc = "except" => excepcion # None
    /\ (pc = "done" /\ excepcion # None) =>
          /\ resultado.consulta_sql = None
          /\ resultado.datos_contexto = None
          /\ resultado.error = FALSE
          /\ resultado.fallback_used = "True"
          /\ resultado.respuesta =
                << MSG_ERROR_PREFIJO, Sugerencias[RangoSugerencia(pregunta)] >>
    /\ (pc = "done" /\ excepcion = None) =>
          \A i \in 1..Len(resultado.respuesta) :
              resultado.respuesta[i] # MSG_ERROR_PREFIJO

C28_Witness ==
    /\ pc = "done"
    /\ pregunta = << "Women", "swimming" >>
    /\ excepcion = << ERROR_GENERAR_RESPUESTA, ERROR_LLM >>
    /\ NumEjecuciones >= 1
    /\ Len(resultados_sql) >= 1
    /\ sql_query # << >>
    /\ resultado.consulta_sql = None
    /\ resultado.respuesta = << MSG_ERROR_PREFIJO, SUGERENCIA_NATACION >>

\* the line quotes a message of the history
EsLineaDeTurno(l) == l.etiqueta \in { USUARIO_PREGUNTO, ASISTENTE_RESPONDIO }

\* the line that renders a message: a user message in full, an assistant
\* message in full up to 800 characters and cut to 800 characters plus three
\* dots beyond
LineaEsperada(m) ==
    IF m.rol = "user" THEN Linea(USUARIO_PREGUNTO, m.contenido, FALSE)
    ELSE IF m.contenido.len <= 800
    THEN Linea(ASISTENTE_RESPONDIO, m.contenido, FALSE)
    ELSE Linea(ASISTENTE_RESPONDIO, Texto(m.contenido.id, 800), TRUE)

\* the context ctx renders every message of the history hist, in order
RenderizaTodo(ctx, hist) ==
    IF hist = None \/ hist[1] = << >> THEN ctx = << >>
    ELSE LET turnos == SelectSeq(ctx, EsLineaDeTurno) IN
         /\ ctx[1] = CABECERA
         /\ ctx[Len(ctx)] = FIN_CONTEXTO
         /\ Len(turnos) = Len(hist[1])
         /\ \A i \in 1..Len(turnos) : turnos[i] = LineaEsperada(hist[1][i])

\* C29: the history section keeps every turn, in the order given: a user
\* turn with its full content, an assistant turn of at most 800 characters
\* verbatim, a longer assistant turn as its first 800 characters followed by
\* '...'; a None or empty history gives no history section at all.
C29_HistorialCompletoYAcotado ==
    /\ hist_pc \in {"generar_respuesta_final", "fin"} =>
          RenderizaTodo(contexto_sql, historial_conversacion)
    /\ hist_pc = "fin" =>
          RenderizaTodo(contexto_respuesta, historial_conversacion)

C29_Witness ==
    /\ hist_pc = "fin"
    /\ historial_conversacion =
          Some(<< Mensaje("user", Texto("pregunta", 801), None),
                  Mensaje("assistant", Texto("respuesta", 801), None) >>)
    /\ contexto_sql =
          << CABECERA,
             Linea(USUARIO_PREGUNTO, Texto("pregunta", 801), FALSE),
             Linea(ASISTENTE_RESPONDIO, Texto("respuesta", 800), TRUE),
             FIN_CONTEXTO >>

\* C30 as stated: for every history the answer prompt and the SQL prompt
\* embed the same history section.
C30_MismoContexto ==
    hist_pc = "fin" => contexto_respuesta = contexto_sql

NoEsLineaSQL(l) == l.etiqueta # SQL_EJECUTADO

\* the assistant messages of the history that carry a statement
TurnosConSQL(hist) ==
    IF hist = None THEN {}
    ELSE { i \in 1..Len(hist[1]) :
             hist[1][i].rol = "assistant" /\ hist[1][i].consulta_sql # None }

\* C30 amended: the history section of the answer prompt is the history
\* section of the SQL prompt without its 'SQL ejecutado' lines: the SQL
\* prompt has one such line after each assistant turn that carries an
\* executed statement, the answer prompt has none.  The two sections are
\* identical exactly for the histories in which no assistant turn carries a
\* statement.
C30_MismoContextoSalvoSQL ==
    hist_pc = "fin" =>
        /\ contexto_respuesta = SelectSeq(contexto_sql, NoEsLineaSQL)
        /\ Len(contexto_sql) - Len(contexto_respuesta)
              = Cardinality(TurnosConSQL(historial_conversacion))
        /\ \A i \in 1..Len(contexto_sql) :
              ~NoEsLineaSQL(contexto_sql[i]) =>
                  /\ contexto_sql[i] = Linea(SQL_EJECUTADO, TextoSQL, FALSE)
                  /\ contexto_sql[i - 1].etiqueta = ASISTENTE_RESPONDIO
        /\ (contexto_respuesta = contexto_sql)
              <=> (TurnosConSQL(historial_conversacion) = {})

C30_Witness ==
    /\ hist_pc = "fin"
    /\ historial_conversacion =
          Some(<< Mensaje("assistant", Texto("respuesta", 800), Some(TextoSQL)),
                  Mensaje("user", Texto("pregunta", 1), None) >>)
    /\ Len(contexto_sql) = 5
    /\ Len(contexto_respuesta) = 4
    /\ contexto_sql[3] = Linea(SQL_EJECUTADO, TextoSQL, FALSE)

\* generar_respuesta_final was called and returned a text
RespuestaGenerada == NumLlamadas("respuesta") = 1 /\ excepcion = None

\* some call of ejecutar_sql of the invocation returned rows or no rows
AlgunaEjecucionCorrecta ==
    \E k \in 1..NumEjecuciones : ejecuciones[k].tipo = "ok"

\* C33: in every outcome consulta_sql is not None exactly when
\* datos_contexto is not None, exactly when the answer generator was called
\* and returned; the outcomes of the guard and every failure outcome have
\* None in both fields, also after a statement executed successfully.
C33_SQLYContextoJuntos ==
    pc = "done" =>
        /\ (resultado.consulta_sql # None) <=> (resultado.datos_contexto # None)
        /\ (resultado.datos_contexto # None) <=> RespuestaGenerada
        /\ (resultado.rechazada # "ausente" \/ resultado.fallback_used # "ausente")
              => (resultado.consulta_sql = None /\ resultado.datos_contexto = None)

C33_Witness ==
    /\ pc = "done"
    /\ AlgunaEjecucionCorrecta
    /\ NumLlamadas("respuesta") = 1
    /\ resultado.fallback_used = "True"
    /\ resultado.consulta_sql = None
    /\ resultado.datos_contexto = None

\* no request to the LLM service, no read of the store and no statement
\* execution has been made
SinLlamadas ==
    /\ llamadas_llm = << >>
    /\ lecturas_db = << >>
    /\ ejecuciones = << >>
    /\ generaciones = << >>

\* the numbers of LLM calls of each kind, and their order
CotaDeLlamadas ==
    /\ NumLlamadas("sql") <= 1
    /\ NumLlamadas("simplificada") <= 2
    /\ NumLlamadas("respuesta") <= 1
    /\ \A i \in 1..Len(llamadas_llm) :
          /\ llamadas_llm[i].tipo \in { "sql", "simplificada", "respuesta" }
          /\ llamadas_llm[i].tipo = "sql" => i = 1
          /\ llamadas_llm[i].tipo = "respuesta" => i = Len(llamadas_llm)

\* what has happened before each LLM call and each store call
OrdenDeLlamadas ==
    /\ pc = "inicio" =>
          UNCHANGED << llamadas_llm, lecturas_db, ejecuciones, generaciones >>
    /\ llamadas_llm' # llamadas_llm =>
          /\ Len(llamadas_llm') = Len(llamadas_llm) + 1
          /\ LET l == llamadas_llm'[Len(llamadas_llm')]
             IN /\ l.tipo = "respuesta" => AlgunaEjecucionCorrecta
                /\ l.tipo = "simplificada" => NumEjecuciones >= 1

\* C34: the guard runs before any LLM or store call, and an outcome of the
\* guard is returned without any; the answer-generation call is made at most
\* once, last, and only after a statement execution succeeded; a simplified
\* generation is called only after an execution of the primary statement;
\* an invocation makes at most one primary, two simplified and one answer
\* generation call.
C34_OrdenYCotaDeLlamadas ==
    /\ [](pc = "inicio" => SinLlamadas)
    /\ []((pc = "done" /\ resultado.rechazada # "ausente") => SinLlamadas)
    /\ []CotaDeLlamadas
    /\ [][OrdenDeLlamadas]_vars

C34_Witness ==
    /\ pc = "done"
    /\ Len(llamadas_llm) = 4
    /\ NumLlamadas("simplificada") = 2
    /\ NumLlamadas("respuesta") = 1
    /\ NumEjecuciones = 3

\* the invocation ended in one of the three failure returns: the simplified
\* fallback after a syntax error failed too, the primary statement raised an
\* execution error, or an exception reached the outer handler
SalidaDeFallo ==
    \/ excepcion # None
    \/ PrimariaEs("SQLExecutionError")
    \/ /\ PrimariaEs("SQLSyntaxError")
       /\ (NumEjecuciones = 1 \/ ejecuciones[2].tipo # "ok")

\* C35: the error field of every outcome is False; fallback_used is present,
\* and true, exactly in the three failure outcomes; a successful outcome has
\* no fallback_used key, also when the statement and the rows it reports are
\* those of the simplified fallback.
C35_FallbackUsedSoloEnFallos ==
    pc = "done" =>
        /\ resultado.error = FALSE
        /\ resultado.fallback_used \in { "ausente", "True" }
        /\ (resultado.fallback_used = "True") <=> SalidaDeFallo
        /\ resultado.datos_contexto # None => resultado.fallback_used = "ausente"
        /\ resultado.fallback_used = "True" =>
              resultado.respuesta \in
                  { << MSG_FALLBACK_FALLO >>, << MSG_ERROR_EJECUCION >>,
                    mensaje_error_de(pregunta) }

C35_Witness ==
    /\ pc = "done"
    /\ resultado.datos_contexto # None
    /\ resultado.fallback_used = "ausente"
    /\ NumEjecuciones >= 2
    /\ resultado.consulta_sql = Some(sql_query_fallback)
    /\ ejecuciones[IndiceAdoptado].sql = sql_query_fallback
    /\ IndiceAdoptado > 1

\* the rows of the table that belong to the user
FilasDe(tabla, u) == { r \in tabla : r.id_usuario = u }

\* the active rows of the user
PropiasActivas(tabla, u) == { r \in FilasDe(tabla, u) : r.activo }

\* the number of entries of the list that are the text t
Veces(lista, t) == Cardinality({ i \in 1..Len(lista) : lista[i] = t })

\* the quoted texts of a block of the prompt, in order
RECURSIVE EntreComillas(_)
EntreComillas(seccion) ==
    IF Len(seccion) < 3 THEN << >>
    ELSE IF seccion[1] = COMILLA /\ seccion[3] = COMILLA
    THEN << seccion[2] >> \o EntreComillas(SubSeq(seccion, 4, Len(seccion)))
    ELSE EntreComillas(Tail(seccion))

\* what a read returns lists each active row of the user once and nothing
\* else, and the block and the count are those of that list
LecturaExacta ==
    (te_lectura' # te_lectura) =>
        LET l == te_lectura'[1]
            propias == PropiasActivas(te_tabla, l.usuario)
        IN /\ Len(l.terminos_excluidos) = Cardinality(propias)
           /\ \A t \in { LowerTermino(x) : x \in TextosTermino } :
                 Veces(l.terminos_excluidos, t) =
                    Cardinality({ r \in propias : r.termino = t })
           /\ l.terminos_excluidos_aplicados = Cardinality(propias)
           /\ (propias = {}) <=> (l.seccion = << >>)
           /\ EntreComillas(l.seccion) = l.terminos_excluidos

\* a step that leaves the rows of a user as they are leaves what a read of
\* that user may return as it is, and a request of a user on
\* /filters/excluded-terms leaves the rows of every other user as they are
OtrosNoInfluyen ==
    /\ \A u \in UsuariosTerminos :
          FilasDe(te_tabla', u) = FilasDe(te_tabla, u) =>
             obtener_terminos_excluidos(te_tabla', u)
                = obtener_terminos_excluidos(te_tabla, u)
    /\ (te_tabla' # te_tabla /\ te_respuesta'[1].usuario # 0) =>
          \A u \in UsuariosTerminos \ { te_respuesta'[1].usuario } :
             FilasDe(te_tabla', u) = FilasDe(te_tabla, u)

\* C31: the list an invocation reads, the excluded-term block of its SQL
\* prompt and its count terminos_excluidos_aplicados are exactly the terms
\* stored for its user and active when read; terms of other users and
\* inactive terms are not in them, no change of another user's terms changes
\* them, and with no active term the block is absent.
C31_SoloTerminosPropiosActivos ==
    [][LecturaExacta /\ OtrosNoInfluyen]_vars

C31_Witness ==
    /\ te_lectura # << >>
    /\ te_lectura[1].terminos_excluidos = << "china" >>
    /\ te_lectura[1].seccion # << >>
    /\ \E r \in te_tabla : r.id_usuario = 1 /\ r.termino = "china" /\ r.activo
    /\ \E r \in te_tabla : r.id_usuario = 1 /\ r.termino = "brasil" /\ ~r.activo
    /\ \E r \in te_tabla : r.id_usuario = 2 /\ r.termino = "brasil" /\ r.activo
    /\ te_respuesta # << >>
    /\ te_respuesta[1].usuario = 2

\* C38: no user has two active rows of terminos_excluidos with the same
\* text.
C38_SinDuplicadosActivos ==
    \A r1, r2 \in te_tabla :
        ( /\ r1.id_usuario = r2.id_usuario
          /\ r1.activo /\ r2.activo
          /\ LowerTermino(r1.termino) = LowerTermino(r2.termino) ) => r1 = r2

\* the committed messages of the conversation of the request
MensajesDeLaConversacion ==
    { m \in ms_mensajes : m.id_conversacion = ms_conversacion_id }

\* C32: the history passed to the invocation is the min(10, n) most recent
\* of the n messages of the conversation, oldest first, and its last element
\* is the question of the request, saved before the history was read.
C32_HistorialRecienteEnOrden ==
    ms_pc = "invocacion" =>
        LET h == ms_historial
            n == Cardinality(MensajesDeLaConversacion)
        IN /\ Len(h) = (IF n <= 10 THEN n ELSE 10)
           /\ \A i \in 1..Len(h) :
                 \E m \in MensajesDeLaConversacion :
                    /\ m.timestamp = h[i].timestamp
                    /\ m.rol = h[i].rol
                    /\ m.contenido = h[i].contenido
                    /\ m.consulta_sql = h[i].consulta_sql
           /\ \A i, j \in 1..Len(h) : i < j => h[i].timestamp < h[j].timestamp
           /\ \A m \in MensajesDeLaConversacion :
                 (\A i \in 1..Len(h) : h[i].timestamp # m.timestamp) =>
                    \A i \in 1..Len(h) : m.timestamp < h[i].timestamp
           /\ Len(h) >= 1
           /\ h[Len(h)].rol = "user"
           /\ h[Len(h)].contenido = pregunta
           /\ h[Len(h)].consulta_sql = None

C32_Witness ==
    /\ ms_pc = "invocacion"
    /\ pc = "done"
    /\ Cardinality(MensajesDeLaConversacion) = 12
    /\ Len(ms_historial) = 10
    /\ ms_historial[1].timestamp = 3
    /\ ms_historial[10].contenido = << "swimming", "medals", "1996" >>

\* the messages committed since the request began
MensajesNuevos ==
    { m \in ms_mensajes : m.contenido \notin { << "previo" >>, << "ajeno" >> } }

\* the message of the user of the request is committed
MensajeUsuarioGuardado ==
    \E u \in MensajesNuevos :
        /\ u.id_conversacion = ms_conversacion_id
        /\ u.rol = "user"
        /\ u.contenido = pregunta
        /\ u.consulta_sql = None

\* the two messages of the request, and no other, are committed
DosMensajesGuardados ==
    \E u, a \in MensajesNuevos :
        /\ MensajesNuevos = { u, a }
        /\ u.id_conversacion = 1 /\ a.id_conversacion = 1
        /\ u.rol = "user"
        /\ u.contenido = pregunta
        /\ a.rol = "assistant"
        /\ a.contenido = resultado.respuesta
        /\ a.consulta_sql = resultado.consulta_sql
        /\ u.timestamp < a.timestamp

\* C36 as stated: a request on a conversation of the caller persists the
\* message of the user before the invocation starts and the message of the
\* assistant after it, and no other, for every outcome of the invocation; no
\* rollback of the invocation removes the message of the user.
C36_DosMensajesSiempre ==
    ms_peticion = Some(1) =>
        /\ ms_pc \in { "historial", "invocacion", "fin" } => MensajeUsuarioGuardado
        /\ ms_pc \in { "inicio", "guardar_usuario" } => MensajesNuevos = {}
        /\ ms_pc = "fin" => DosMensajesGuardados

\* C36, amended: the same whenever the second call of agregar_mensaje
\* returns; it can raise only after an invocation that caught the failure of
\* a store operation, and then the request fails and the message of the user
\* alone is persisted.
C36_DosMensajesSalvoFalloDeAlmacen ==
    ms_peticion = Some(1) =>
        /\ ms_pc \in { "historial", "invocacion", "fin" } => MensajeUsuarioGuardado
        /\ ms_pc \in { "inicio", "guardar_usuario" } => MensajesNuevos = {}
        /\ (ms_pc = "fin" /\ ms_salida[1].tipo = "ChatResponse") =>
              DosMensajesGuardados
        /\ (ms_pc = "fin" /\ ms_salida[1].tipo # "ChatResponse") =>
              /\ SesionFallida
              /\ ms_salida[1].estado = 500
              /\ Cardinality(MensajesNuevos) = 1
        /\ (ms_pc = "fin" /\ ~SesionFallida) => ms_salida[1].tipo = "ChatResponse"

C36_Witness ==
    /\ ms_peticion = Some(1)
    /\ ms_pc = "fin"
    /\ HuboRollback
    /\ ~SesionFallida
    /\ resultado.fallback_used = "True"
    /\ ms_salida[1].tipo = "ChatResponse"
    /\ DosMensajesGuardados

\* the request names, by the id n, a conversation that is not an active
\* conversation of the caller
NoEsConversacionPropia(n) ==
    ~\E c \in ConversacionesPrevias :
        c.id = n /\ c.id_usuario = UsuarioInvocacion /\ c.activa

\* the request had no effect and the invocation was not started
SinEfecto ==
    /\ MensajesNuevos = {}
    /\ ms_sesion = {}
    /\ ms_conversaciones = ConversacionesPrevias
    /\ pc = "inicio"
    /\ SinLlamadas

\* the request failed with 'Conversación no encontrada'
FalloNoEncontrada ==
    /\ ms_salida # << >>
    /\ ms_salida[1].tipo = "HTTPException"
    /\ ms_salida[1].estado = 404
    /\ ms_salida[1].detalle = DETALLE_CONVERSACION_NO_ENCONTRADA

\* C37 as stated: a request that names a conversation that does not exist,
\* is inactive or belongs to another user has no effect and fails with
\* 'Conversación no encontrada'.
C37_AjenaSinEfecto ==
    (ms_peticion # None /\ NoEsConversacionPropia(ms_peticion[1])) =>
        /\ SinEfecto
        /\ ms_pc \in { "inicio", "fin" }
        /\ ms_pc = "fin" => FalloNoEncontrada

\* C37, amended: the same for every id but 0, which is taken as no id.
C37_AjenaSinEfectoSalvoCero ==
    (ms_peticion \notin { None, Some(0) }
        /\ NoEsConversacionPropia(ms_peticion[1])) =>
        /\ SinEfecto
        /\ ms_pc \in { "inicio", "fin" }
        /\ ms_pc = "fin" => FalloNoEncontrada

C37_Witness ==
    /\ ms_peticion = Some(3)
    /\ ms_pc = "fin"
    /\ FalloNoEncontrada
    /\ SinEfecto
    /\ \E m \in ms_mensajes : m.id_conversacion = 3

\* the account is in the table, active and an administrator
EsAdministradorActivo(tabla, id) ==
    \E u \in tabla : u.id = id /\ u.rol = "admin" /\ u.activo

\* C39: no user-management request of an administrator deactivates or
\* deletes an account that is an administrator, the administrator's own
\* included, or changes its role: an account that is in the table, active,
\* with rol = 'admin' is so after every request.
C39_AdministradoresIntactos ==
    [][\A u \in us_tabla :
          (u.rol = "admin" /\ u.activo) => EsAdministradorActivo(us_tabla', u.id)]_vars

=============================================================================
